---------------------------- MODULE Spec2Model ----------------------------
(***************************************************************************)
(* A model of the inverted index of KKKIIO/inv-index-demo: the term        *)
(* postings, the sparse create_time index with its forward map, the CDC     *)
(* applier that maintains them and the query planner that reads them.       *)
(*                                                                          *)
(* Conventions.                                                             *)
(*  - A Go string is a sequence of one-character strings, so that           *)
(*    formatting (fmt.Sprint, %016x) and parsing are computed, not assumed. *)
(*  - A serialized roaring bitmap is the ascending sequence of its ids; a   *)
(*    decoded bitmap is a set of ids.                                       *)
(*  - The Redis server is the four variables bm, zs, hm, fv.  A Go function *)
(*    that talks to Redis takes a context c (the server state plus the      *)
(*    number of commands that still succeed) and returns a record with the  *)
(*    context after it, its value v and its error err ("" is nil).          *)
(***************************************************************************)
EXTENDS Integers, Sequences, FiniteSets, TLC

(***************************************************************************)
(* Bounds of the model.                                                     *)
(***************************************************************************)
\* Row ids are 1..MaxId (uint32 in the source).
MaxId == 3
\* create_time values of events are 0..MaxTime.
MaxTime == 1
\* uint64 is modelled with U64Bits bits: the source's 0xFFFFFFFFFFFFFFFF is U64Max.
U64Bits == 4
\* SparseU64IndexWriter.SplitThreshold (1000 in Consumer.Start), scaled down.
SplitThreshold == 2
\* The page size of SparseU64IndexReader.Scan (100 in the source), scaled down.
ScanPageSize == 2
\* The largest limit a query is given.
MaxLimit == 3
\* Messages in one claim of the ingest specification.
MaxMessages == 2
\* Events recorded by the replay specification.
MaxLog == 3
\* A delivery fails at its n-th Redis command for some n in 1..MaxFault + 1, or not at all.
MaxFault == 20
\* Ids given to a create_time index writer driven on its own are 1..MaxSparseId.
MaxSparseId == 3
\* Such a writer's SplitThreshold is any of 2..MaxThreshold.
MaxThreshold == 3
\* Operations made on such a writer.
MaxOps == 4
\* The longest run of ids 1..n inserted with create_time = id.
MaxAscending == 6
\* The messages a partition holds at most: the changes the table may be ahead
\* of the index by.
MaxBacklog == 1

\* The width of a sort key member: fmt.Sprintf("%016x", u).
HexWidth == 16

U64Max == 2^U64Bits - 1

Ids == 1..MaxId
CreateTimes == 0..MaxTime
OrderStatuses == {1, 2}
ProductIds == {7, 8}
\* provider_id values; None is SQL NULL / JSON null.
None == [some |-> FALSE]
Some(v) == [some |-> TRUE, val |-> v]
ProviderIds == {None, Some(5), Some(6)}

(***************************************************************************)
(* Strings: formatting and parsing.                                         *)
(***************************************************************************)
HexChars == <<"0", "1", "2", "3", "4", "5", "6", "7", "8", "9", "a", "b", "c", "d", "e", "f">>

\* The value of a digit character.
CharValues == [ch \in {HexChars[i] : i \in 1..16} |-> (CHOOSE i \in 1..16 : HexChars[i] = ch) - 1]

CharVal(ch) == CharValues[ch]

RECURSIVE Sprint(_)
\* fmt.Sprint of a non-negative integer: its decimal digits.
Sprint(n) == IF n < 10 THEN <<HexChars[n + 1]>> ELSE Append(Sprint(n \div 10), HexChars[(n % 10) + 1])

RECURSIVE ParseDigits(_, _, _)
\* The value of the first n characters of s read in the given base.
ParseDigits(s, n, base) ==
    IF n = 0 THEN 0 ELSE ParseDigits(s, n - 1, base) * base + CharVal(s[n])

\* strconv.ParseUint(s, base, 64) of a well-formed numeral.
ParseUint(s, base) == ParseDigits(s, Len(s), base)

RECURSIVE HexDigits(_, _)
HexDigits(u, w) == IF w = 0 THEN <<>> ELSE Append(HexDigits(u \div 16, w - 1), HexChars[(u % 16) + 1])

\* The members of every uint64 of the model, tabulated.
HexTable == [u \in 0..U64Max |-> HexDigits(u, HexWidth)]

u64ToHex(u) == HexTable[u]

hexToU64(s) == ParseUint(s, 16)

\* Byte-wise order of two strings, as Redis compares members of a sorted set:
\* decided at the first position where they differ, a proper prefix first.
LexLess(a, b) ==
    LET n == IF Len(a) < Len(b) THEN Len(a) ELSE Len(b)
        diff == {i \in 1..n : a[i] # b[i]}
    IN IF diff = {} THEN Len(a) < Len(b)
       ELSE LET i == CHOOSE j \in diff : \A k \in diff : j <= k
            IN CharVal(a[i]) < CharVal(b[i])

LexLeq(a, b) == a = b \/ LexLess(a, b)

NullKey == <<"n", "u", "l", "l">>

(***************************************************************************)
(* Bitmap codec.                                                            *)
(***************************************************************************)
RECURSIVE ToBytes(_)
\* roaring.Bitmap.ToBytes: the ids in ascending order.
ToBytes(set) ==
    IF set = {} THEN <<>>
    ELSE LET m == CHOOSE x \in set : \A y \in set : y <= x
         IN Append(ToBytes(set \ {m}), m)

\* parseBitmap: the empty string is the empty bitmap.  Only ToBytes output is
\* ever stored, so the decode errors of FromBuffer do not arise.
parseBitmap(sv) == IF Len(sv) = 0 THEN {} ELSE {sv[i] : i \in 1..Len(sv)}

(***************************************************************************)
(* Redis commands on a hash (a function from fields to values) and on a     *)
(* sorted set (a set of members; the score float64(SortKey) orders members  *)
(* as their zero-padded hex does, so the lexicographic order is the order   *)
(* of the set).                                                             *)
(***************************************************************************)
EmptyHash == [x \in {} |-> <<>>]

\* HGET: redis.Nil leaves the empty string.
HGet(h, f) == IF f \in DOMAIN h THEN h[f] ELSE <<>>

HSet(h, f, raw) == [x \in DOMAIN h \cup {f} |-> IF x = f THEN raw ELSE h[x]]

HDel(h, fields) == [x \in DOMAIN h \ fields |-> h[x]]

\* HMGET: a missing field is nil, which the callers read as "" / 0.
HMGet(h, fields) == [i \in 1..Len(fields) |-> HGet(h, fields[i])]

RECURSIVE HMSet(_, _)
\* HMSET field value [field value ...]: applied left to right.
HMSet(h, pairs) ==
    IF Len(pairs) = 0 THEN h
    ELSE HMSet(HSet(h, pairs[1][1], pairs[1][2]), Tail(pairs))

RECURSIVE LexFirst(_, _)
\* The first member of a non-empty set in lexicographic order, the last when rev.
LexFirst(members, rev) ==
    LET m == CHOOSE x \in members : TRUE
    IN IF members = {m} THEN m
       ELSE LET o == LexFirst(members \ {m}, rev)
            IN IF (IF rev THEN LexLess(o, m) ELSE LexLess(m, o)) THEN m ELSE o

RECURSIVE LexRange(_, _, _)
\* The first count members of a set in lexicographic order, descending when rev.
LexRange(members, rev, count) ==
    IF members = {} \/ count = 0 THEN <<>>
    ELSE LET first == LexFirst(members, rev)
         IN <<first>> \o LexRange(members \ {first}, rev, count - 1)

\* ZRANGE key min max BYLEX [REV] LIMIT 0 count, both ends inclusive.
ZRangeByLex(z, min, max, rev, count) ==
    LexRange({m \in z : LexLeq(min, m) /\ LexLeq(m, max)}, rev, count)

(***************************************************************************)
(* The context threaded through every function that calls Redis.           *)
(* fuel is the number of commands that still succeed; NoFault never fails. *)
(***************************************************************************)
NoFault == 0 - 1

\* calls lists the index-writer calls entered so far, in order, each as
\* <<field name, method>>.
Ctx(b, z, h, f, fuel) == [bm |-> b, zs |-> z, hm |-> h, fv |-> f, fuel |-> fuel, calls |-> <<>>]

Enter(c, field, op) == [c EXCEPT !.calls = Append(@, <<field, op>>)]

\* The next Redis command fails (a transport error).
Fails(c) == c.fuel = 0

\* One Redis command has been served.
Tick(c) == [c EXCEPT !.fuel = IF @ > 0 THEN @ - 1 ELSE @]

Ok(c, v) == [c |-> c, v |-> v, err |-> ""]
Err(c, e) == [c |-> c, v |-> {}, err |-> e]

\* if err != nil { return err }: the rest of a function runs on a result
\* without error.
Then(r, rest(_)) == IF r.err # "" THEN r ELSE rest(r)

(***************************************************************************)
(* Key construction.                                                        *)
(***************************************************************************)
\* namespace of main: "inv-pg-" + the index name (flag default "0").
Namespace == "inv-pg-0"
BmPrefix == Namespace \o ":bm:"
SkbmPrefix == Namespace \o ":skbm:"
FvPrefix == Namespace \o ":fv:"

\* TermIndex{TableName, FieldName}.GetIndexKey
GetIndexKey(index) == "term:" \o index.TableName \o ":" \o index.FieldName

\* A *int64 is NilPtr or a pointer to an allocation holding val.
NilPtr == [nil |-> TRUE]
Ptr(addr, v) == [nil |-> FALSE, addr |-> addr, val |-> v]

\* TermIndex.MakeValueKey for an int64 field value.
MakeValueKeyInt(fieldValue) == Sprint(fieldValue)

\* TermIndex.MakeValueKey for a *int64 field value.
MakeValueKeyPtr(fieldValue) == IF fieldValue.nil THEN NullKey ELSE Sprint(fieldValue.val)

\* SparseIndex.MakeIndexKey
MakeIndexKey(index) == "sparse:" \o index.TableName \o ":" \o index.FieldName

makeZsetKey(indexKey) == SkbmPrefix \o indexKey \o ":zs"

makeHashKey(indexKey) == SkbmPrefix \o indexKey \o ":hm"

AllIndex == [TableName |-> "orders", FieldName |-> "__all"]
OrderStatusIndex == [TableName |-> "orders", FieldName |-> "order_status"]
ProductIdIndex == [TableName |-> "orders", FieldName |-> "product_id"]
ProviderIdIndex == [TableName |-> "orders", FieldName |-> "provider_id"]
CreateTimeIndex == [TableName |-> "orders", FieldName |-> "create_time"]

TermIndexes == {AllIndex, OrderStatusIndex, ProductIdIndex, ProviderIdIndex}

BmHashKeys == {BmPrefix \o GetIndexKey(i) : i \in TermIndexes}
CtZsetKey == makeZsetKey(MakeIndexKey(CreateTimeIndex))
CtHashKey == makeHashKey(MakeIndexKey(CreateTimeIndex))
CtFvKey == FvPrefix \o MakeIndexKey(CreateTimeIndex)

(***************************************************************************)
(* store: RedisBmStore, RedisSortKeyBitmapStore, RedisFvStore.             *)
(***************************************************************************)
RedisBmStore_Get(c, indexKey, valueKey) ==
    LET hashKey == BmPrefix \o indexKey
    IN IF Fails(c) THEN Err(c, "HGET failed")
       ELSE Ok(Tick(c), parseBitmap(HGet(c.bm[hashKey], valueKey)))

\* A faulty Set that stores an empty bitmap instead of deleting the field.
RedisBmStore_SetStoresEmpty(c, indexKey, valueKey, value) ==
    IF Fails(c) THEN Err(c, "HSet failed")
    ELSE Ok([Tick(c) EXCEPT !.bm[BmPrefix \o indexKey] = HSet(@, valueKey, ToBytes(value))], {})

\* Set deletes the field of an empty bitmap and stores a non-empty one.
RedisBmStore_Set(c, indexKey, valueKey, value) ==
    LET hashKey == BmPrefix \o indexKey
    IN IF value = {}
       THEN IF Fails(c) THEN Err(c, "HDel failed")
            ELSE Ok([Tick(c) EXCEPT !.bm[hashKey] = HDel(@, {valueKey})], {})
       ELSE IF Fails(c) THEN Err(c, "HSet failed")
            ELSE Ok([Tick(c) EXCEPT !.bm[hashKey] = HSet(@, valueKey, ToBytes(value))], {})

SortKeyBitmap(k, b) == [SortKey |-> k, Bitmap |-> b]

\* A faulty second half of Scan that takes a sort key without a payload in the
\* hash for corrupt data.
ScanValuesNeedsPayload(c, hashKey, keys) ==
    IF Len(keys) = 0 THEN Ok(c, <<>>)
    ELSE IF Fails(c) THEN Err(c, "HMGet failed")
    ELSE IF \E i \in 1..Len(keys) : keys[i] \notin DOMAIN c.hm[hashKey]
         THEN Err(Tick(c), "Failed to decode bitmap")
    ELSE Ok(Tick(c),
            [i \in 1..Len(keys) |->
                SortKeyBitmap(hexToU64(keys[i]), parseBitmap(HMGet(c.hm[hashKey], keys)[i]))])

\* The second half of Scan: HMGet of the keys found, one SortKeyBitmap per key.
ScanValues(c, hashKey, keys) ==
    IF Len(keys) = 0 THEN Ok(c, <<>>)
    ELSE IF Fails(c) THEN Err(c, "HMGet failed")
    ELSE Ok(Tick(c),
            [i \in 1..Len(keys) |->
                SortKeyBitmap(hexToU64(keys[i]), parseBitmap(HMGet(c.hm[hashKey], keys)[i]))])

\* ZRangeArgs.Start is the lower end and Stop the upper end, also with Rev.
RedisSortKeyBitmapStore_Scan(c, indexKey, start, stop, reverse, limit) ==
    LET sstart == u64ToHex(start)
        sstop == u64ToHex(stop)
        argsStart == IF ~reverse THEN sstart ELSE sstop
        argsStop == IF ~reverse THEN sstop ELSE sstart
    IN IF Fails(c) THEN Err(c, "ZRange failed")
       ELSE ScanValues(Tick(c), makeHashKey(indexKey),
                       ZRangeByLex(c.zs[makeZsetKey(indexKey)], argsStart, argsStop,
                                   reverse, limit))

\* The second half of MSet: ZAdd and HMSet of the non-empty bitmaps.
MSetStore(c, zsetKey, hashKey, setSkbms) ==
    IF Len(setSkbms) = 0 THEN Ok(c, {})
    ELSE LET members == {u64ToHex(setSkbms[i].SortKey) : i \in 1..Len(setSkbms)}
             pairs == [i \in 1..Len(setSkbms) |->
                          <<u64ToHex(setSkbms[i].SortKey), ToBytes(setSkbms[i].Bitmap)>>]
         IN IF Fails(c) THEN Err(c, "ZAdd failed")
            ELSE LET c1 == [Tick(c) EXCEPT !.zs[zsetKey] = @ \cup members]
                 IN IF Fails(c1) THEN Err(c1, "HMSet failed")
                    ELSE Ok([Tick(c1) EXCEPT !.hm[hashKey] = HMSet(@, pairs)], {})

\* A faulty MSet that stores the non-empty bitmaps first and deletes the keys
\* of the empty ones afterwards.
RedisSortKeyBitmapStore_MSetDeletesLast(c, indexKey, skbms) ==
    IF Len(skbms) = 0 THEN Ok(c, {})
    ELSE LET isEmpty(skbm) == skbm.Bitmap = {}
             isSet(skbm) == skbm.Bitmap # {}
             delKeys == SelectSeq(skbms, isEmpty)
             fields == {u64ToHex(delKeys[i].SortKey) : i \in 1..Len(delKeys)}
         IN Then(MSetStore(c, makeZsetKey(indexKey), makeHashKey(indexKey),
                           SelectSeq(skbms, isSet)), LAMBDA r :
            IF Len(delKeys) = 0 THEN r
            ELSE Ok([r.c EXCEPT !.zs[makeZsetKey(indexKey)] = @ \ fields,
                                !.hm[makeHashKey(indexKey)] = HDel(@, fields)], {}))

RedisSortKeyBitmapStore_MSet(c, indexKey, skbms) ==
    IF Len(skbms) = 0 THEN Ok(c, {})
    ELSE LET zsetKey == makeZsetKey(indexKey)
             hashKey == makeHashKey(indexKey)
             isEmpty(skbm) == skbm.Bitmap = {}
             isSet(skbm) == skbm.Bitmap # {}
             delKeys == SelectSeq(skbms, isEmpty)
             setSkbms == SelectSeq(skbms, isSet)
             fields == {u64ToHex(delKeys[i].SortKey) : i \in 1..Len(delKeys)}
         IN IF Len(delKeys) > 0
            THEN IF Fails(c) THEN Err(c, "ZRem failed")
                 ELSE LET c1 == [Tick(c) EXCEPT !.zs[zsetKey] = @ \ fields]
                      IN IF Fails(c1) THEN Err(c1, "HDel failed")
                         ELSE MSetStore([Tick(c1) EXCEPT !.hm[hashKey] = HDel(@, fields)],
                                        zsetKey, hashKey, setSkbms)
            ELSE MSetStore(c, zsetKey, hashKey, setSkbms)

\* ids is a sequence; a missing entry reads as 0.
RedisFvStore_MGet(c, indexKey, ids) ==
    LET hashKey == FvPrefix \o indexKey
        keys == [i \in 1..Len(ids) |-> Sprint(ids[i])]
    IN IF Fails(c) THEN Err(c, "HMGet failed")
       ELSE LET values == HMGet(c.fv[hashKey], keys)
            IN Ok(Tick(c), [i \in 1..Len(values) |-> ParseUint(values[i], 10)])

RedisFvStore_Set(c, indexKey, id, value) ==
    LET hashKey == FvPrefix \o indexKey
    IN IF Fails(c) THEN Err(c, "HSet failed")
       ELSE Ok([Tick(c) EXCEPT !.fv[hashKey] = HSet(@, Sprint(id), Sprint(value))], {})

RedisFvStore_Remove(c, indexKey, id) ==
    LET hashKey == FvPrefix \o indexKey
    IN IF Fails(c) THEN Err(c, "HDel failed")
       ELSE Ok([Tick(c) EXCEPT !.fv[hashKey] = HDel(@, {Sprint(id)})], {})

(***************************************************************************)
(* index: sorting ids by forward value.                                     *)
(* sort.Slice on fewer than 13 elements is an insertion sort, which keeps   *)
(* elements that compare equal in their input order.                        *)
(***************************************************************************)
Front(s) == SubSeq(s, 1, Len(s) - 1)

RECURSIVE InsertByScore(_, _)
InsertByScore(s, x) ==
    IF Len(s) = 0 THEN <<x>>
    ELSE IF x.Score < s[Len(s)].Score
         THEN Append(InsertByScore(Front(s), x), s[Len(s)])
         ELSE Append(s, x)

RECURSIVE SortByScore(_)
SortByScore(s) == IF Len(s) = 0 THEN <<>> ELSE InsertByScore(SortByScore(Front(s)), s[Len(s)])

\* index.QuerySortedIds (the writer's): ordered by Score alone.
QuerySortedIds(c, fieldKey, bitmap) ==
    Then(RedisFvStore_MGet(c, fieldKey, ToBytes(bitmap)), LAMBDA r :
    Ok(r.c, SortByScore([i \in 1..Len(r.v) |-> [Id |-> ToBytes(bitmap)[i], Score |-> r.v[i]]])))

SortIdLess(a, b) == IF a.SortKey = b.SortKey THEN a.Id < b.Id ELSE a.SortKey < b.SortKey

RECURSIVE InsertBySortKey(_, _)
InsertBySortKey(s, x) ==
    IF Len(s) = 0 THEN <<x>>
    ELSE IF SortIdLess(x, s[Len(s)])
         THEN Append(InsertBySortKey(Front(s), x), s[Len(s)])
         ELSE Append(s, x)

RECURSIVE SortBySortKey(_)
SortBySortKey(s) == IF Len(s) = 0 THEN <<>> ELSE InsertBySortKey(SortBySortKey(Front(s)), s[Len(s)])

\* index.QuerySortIds (the reader's): ordered by SortKey, then by Id.
QuerySortIds(c, fieldKey, bitmap) ==
    Then(RedisFvStore_MGet(c, fieldKey, ToBytes(bitmap)), LAMBDA r :
    Ok(r.c, SortBySortKey([i \in 1..Len(r.v) |-> [Id |-> ToBytes(bitmap)[i], SortKey |-> r.v[i]]])))

(***************************************************************************)
(* sync: TermIndexWriter[T], T one of int64 and *int64.                     *)
(***************************************************************************)
NewTermIndexWriter(T, tableName, fieldName) ==
    [T |-> T, Index |-> [TableName |-> tableName, FieldName |-> fieldName]]

\* TermIndex.MakeValueKey: the type switch on the writer's type parameter.
MakeValueKey(T, fieldValue) ==
    IF T = "int64" THEN MakeValueKeyInt(fieldValue) ELSE MakeValueKeyPtr(fieldValue)

TermIndexWriter_Add(c, w, fv, id) ==
    Then(RedisBmStore_Get(Enter(c, w.Index.FieldName, "Add"),
                          GetIndexKey(w.Index), MakeValueKey(w.T, fv)), LAMBDA g :
    RedisBmStore_Set(g.c, GetIndexKey(w.Index), MakeValueKey(w.T, fv), g.v \cup {id}))

\* A faulty Remove that flips the id: it takes the id out of a posting that
\* holds it and puts it into one that does not.
TermIndexWriter_RemoveFlips(c, w, fv, id) ==
    Then(RedisBmStore_Get(Enter(c, w.Index.FieldName, "Remove"),
                          GetIndexKey(w.Index), MakeValueKey(w.T, fv)), LAMBDA g :
    RedisBmStore_Set(g.c, GetIndexKey(w.Index), MakeValueKey(w.T, fv),
                     IF id \in g.v THEN g.v \ {id} ELSE g.v \cup {id}))

TermIndexWriter_Remove(c, w, fv, id) ==
    Then(RedisBmStore_Get(Enter(c, w.Index.FieldName, "Remove"),
                          GetIndexKey(w.Index), MakeValueKey(w.T, fv)), LAMBDA g :
    RedisBmStore_Set(g.c, GetIndexKey(w.Index), MakeValueKey(w.T, fv), g.v \ {id}))

\* before == after compares int64 values, and *int64 pointers.
TermIndexWriter_Move(c, w, before, after, id) ==
    IF before = after THEN Ok(Enter(c, w.Index.FieldName, "Move"), {})
    ELSE Then(TermIndexWriter_Remove(Enter(c, w.Index.FieldName, "Move"), w, before, id),
              LAMBDA r : TermIndexWriter_Add(r.c, w, after, id))

(***************************************************************************)
(* sync: SparseU64IndexWriter.                                              *)
(***************************************************************************)
getFloorSortedBm(c, fieldKey, fv) ==
    Then(RedisSortKeyBitmapStore_Scan(c, fieldKey, fv, 0, TRUE, 1), LAMBDA r :
    Ok(r.c, IF Len(r.v) = 0 THEN [found |-> FALSE] ELSE [found |-> TRUE, skbm |-> r.v[1]]))

\* The split path of Add: the two buckets made of the floor bucket's ids,
\* the one that is to take the new id first.
SplitSortedBms(sortedIds, fv) ==
    LET mid == Len(sortedIds) \div 2
        bm1 == {sortedIds[i].Id : i \in 1..mid}
        bm2 == {sortedIds[i].Id : i \in (mid + 1)..Len(sortedIds)}
        first == SortKeyBitmap(sortedIds[1].Score, bm1)
        second == SortKeyBitmap(sortedIds[mid + 1].Score, bm2)
    IN IF second.SortKey <= fv THEN <<second, first>> ELSE <<first, second>>

\* A faulty choice that still adds in place to a bucket that holds SplitThreshold ids.
UpdateSortedBmsInPlaceAtThreshold(c, w, fieldKey, floor, fv) ==
    IF ~floor.found THEN Ok(c, <<SortKeyBitmap(fv, {})>>)
    ELSE IF Cardinality(floor.skbm.Bitmap) <= w.SplitThreshold THEN Ok(c, <<floor.skbm>>)
    ELSE Then(QuerySortedIds(c, fieldKey, floor.skbm.Bitmap), LAMBDA q :
         Ok(q.c, SplitSortedBms(q.v, fv)))

\* The buckets Add is about to write, before the new id is added to the first.
UpdateSortedBms(c, w, fieldKey, floor, fv) ==
    IF ~floor.found THEN Ok(c, <<SortKeyBitmap(fv, {})>>)
    ELSE IF Cardinality(floor.skbm.Bitmap) < w.SplitThreshold THEN Ok(c, <<floor.skbm>>)
    ELSE Then(QuerySortedIds(c, fieldKey, floor.skbm.Bitmap), LAMBDA q :
         Ok(q.c, SplitSortedBms(q.v, fv)))

\* A faulty Add that persists the buckets first and the forward value last.
SparseU64IndexWriter_AddBucketsFirst(c, w, fv, id) ==
    Then(getFloorSortedBm(Enter(c, w.Index.FieldName, "Add"), MakeIndexKey(w.Index), fv),
         LAMBDA fl :
    Then(UpdateSortedBms(fl.c, w, MakeIndexKey(w.Index), fl.v, fv), LAMBDA u :
    Then(RedisSortKeyBitmapStore_MSet(u.c, MakeIndexKey(w.Index),
                                      [u.v EXCEPT ![1].Bitmap = @ \cup {id}]), LAMBDA m :
    RedisFvStore_Set(m.c, MakeIndexKey(w.Index), id, fv))))

SparseU64IndexWriter_Add(c, w, fv, id) ==
    Then(getFloorSortedBm(Enter(c, w.Index.FieldName, "Add"), MakeIndexKey(w.Index), fv),
         LAMBDA fl :
    Then(UpdateSortedBms(fl.c, w, MakeIndexKey(w.Index), fl.v, fv), LAMBDA u :
    Then(RedisFvStore_Set(u.c, MakeIndexKey(w.Index), id, fv), LAMBDA f :
    RedisSortKeyBitmapStore_MSet(f.c, MakeIndexKey(w.Index),
                                 [u.v EXCEPT ![1].Bitmap = @ \cup {id}]))))

SparseU64IndexWriter_Remove(c, w, fv, id) ==
    Then(getFloorSortedBm(Enter(c, w.Index.FieldName, "Remove"), MakeIndexKey(w.Index), fv),
         LAMBDA fl :
    Then(IF fl.v.found
         THEN RedisSortKeyBitmapStore_MSet(fl.c, MakeIndexKey(w.Index),
                  <<SortKeyBitmap(fl.v.skbm.SortKey, fl.v.skbm.Bitmap \ {id})>>)
         ELSE Ok(fl.c, {}), LAMBDA m :
    RedisFvStore_Remove(m.c, MakeIndexKey(w.Index), id)))

SparseU64IndexWriter_Move(c, w, before, after, id) ==
    IF before = after THEN Ok(Enter(c, w.Index.FieldName, "Move"), {})
    ELSE Then(SparseU64IndexWriter_Remove(Enter(c, w.Index.FieldName, "Move"), w, before, id),
              LAMBDA r : SparseU64IndexWriter_Add(r.c, w, after, id))

(***************************************************************************)
(* sync: the consumer.                                                      *)
(***************************************************************************)
AllIndexWriter == NewTermIndexWriter("int64", "orders", "__all")
OrderStatusIndexWriter == NewTermIndexWriter("int64", "orders", "order_status")
ProductIdIndexWriter == NewTermIndexWriter("int64", "orders", "product_id")
ProviderIdIndexWriter == NewTermIndexWriter("*int64", "orders", "provider_id")
CreateTimeIndexWriter == [Index |-> CreateTimeIndex, SplitThreshold |-> SplitThreshold]

onInsert(c, order) ==
    Then(TermIndexWriter_Add(c, AllIndexWriter, 0, order.ID), LAMBDA r1 :
    Then(TermIndexWriter_Add(r1.c, OrderStatusIndexWriter, order.OrderStatus, order.ID), LAMBDA r2 :
    Then(TermIndexWriter_Add(r2.c, ProductIdIndexWriter, order.ProductID, order.ID), LAMBDA r3 :
    Then(TermIndexWriter_Add(r3.c, ProviderIdIndexWriter, order.ProviderID, order.ID), LAMBDA r4 :
    SparseU64IndexWriter_Add(r4.c, CreateTimeIndexWriter, order.CreateTime, order.ID)))))

onUpdate(c, before, after) ==
    Then(TermIndexWriter_Move(c, OrderStatusIndexWriter, before.OrderStatus, after.OrderStatus, after.ID), LAMBDA r1 :
    Then(TermIndexWriter_Move(r1.c, ProductIdIndexWriter, before.ProductID, after.ProductID, after.ID), LAMBDA r2 :
    Then(TermIndexWriter_Move(r2.c, ProviderIdIndexWriter, before.ProviderID, after.ProviderID, after.ID), LAMBDA r3 :
    SparseU64IndexWriter_Move(r3.c, CreateTimeIndexWriter, before.CreateTime, after.CreateTime, after.ID))))

onDelete(c, order) ==
    Then(TermIndexWriter_Remove(c, AllIndexWriter, 0, order.ID), LAMBDA r1 :
    Then(TermIndexWriter_Remove(r1.c, OrderStatusIndexWriter, order.OrderStatus, order.ID), LAMBDA r2 :
    Then(TermIndexWriter_Remove(r2.c, ProductIdIndexWriter, order.ProductID, order.ID), LAMBDA r3 :
    Then(TermIndexWriter_Remove(r3.c, ProviderIdIndexWriter, order.ProviderID, order.ID), LAMBDA r4 :
    SparseU64IndexWriter_Remove(r4.c, CreateTimeIndexWriter, order.CreateTime, order.ID)))))

(***************************************************************************)
(* CDC messages.  A row is [id, order_status, product_id, provider_id,      *)
(* create_time] with provider_id None or Some(v); a message is              *)
(* [op, before, after] with before and after None or Some(row).             *)
(***************************************************************************)
Row(id, st, pr, pv, ct) ==
    [id |-> id, order_status |-> st, product_id |-> pr, provider_id |-> pv, create_time |-> ct]

\* Rows as the test data generator makes them: an order of status 1 has no
\* provider yet, any other has one.
GenRows == [id \in Ids |->
               {Row(id, st, 7, IF st = 1 THEN None ELSE Some(5), ct) :
                    st \in OrderStatuses, ct \in CreateTimes}]

\* Rows that vary in the term fields, all created at time 0: row 1 has every
\* combination of them, the other rows every status and product, with the
\* provider the generator gives the status.
TermRows == [id \in Ids |->
                IF id = 1
                THEN {Row(id, st, pr, pv, 0) :
                         st \in OrderStatuses, pr \in ProductIds, pv \in ProviderIds}
                ELSE {Row(id, st, pr, IF st = 1 THEN None ELSE Some(5), 0) :
                         st \in OrderStatuses, pr \in ProductIds}]

\* The value of a change event: a JSON object with op and the row images.  The
\* table has REPLICA IDENTITY FULL, so an update and a delete carry the image
\* before.
Message(op, before, after) == [null |-> FALSE, op |-> op, before |-> before, after |-> after]

\* A record whose value is null.  Debezium publishes one after each delete
\* event unless tombstones.on.delete is switched off, and the connector
\* configuration does not set it.
Tombstone == [null |-> TRUE, op |-> "", before |-> None, after |-> None]

\* json.Unmarshal into an Order: every nullable field gets an allocation of its own.
DecodeOrder(side, row) ==
    [ID |-> row.id, OrderStatus |-> row.order_status, ProductID |-> row.product_id,
     ProviderID |-> IF row.provider_id.some THEN Ptr(side, row.provider_id.val) ELSE NilPtr,
     CreateTime |-> row.create_time]

\* json.Unmarshal into a DataChangedMessage: a value that is no JSON text is
\* an error, and ConsumeClaim wraps it.
Unmarshal(value) ==
    [err |-> IF value.null THEN "Failed to unmarshal message" ELSE "",
     Op |-> value.op,
     Before |-> IF value.before.some THEN Ptr("before", DecodeOrder("before", value.before.val)) ELSE NilPtr,
     After |-> IF value.after.some THEN Ptr("after", DecodeOrder("after", value.after.val)) ELSE NilPtr]

\* The switch of ConsumeClaim on the op of one message.
Dispatch(c, dataChangedMessage) ==
    IF dataChangedMessage.Op \in {"r", "c"} THEN onInsert(c, dataChangedMessage.After.val)
    ELSE IF dataChangedMessage.Op = "u"
         THEN onUpdate(c, dataChangedMessage.Before.val, dataChangedMessage.After.val)
    ELSE IF dataChangedMessage.Op = "d" THEN onDelete(c, dataChangedMessage.Before.val)
    ELSE Err(c, "Unknown op")

\* One iteration of ConsumeClaim's loop on a received message.
ConsumeMessage(c, value) ==
    IF Unmarshal(value).err # "" THEN Err(c, Unmarshal(value).err)
    ELSE Dispatch(c, Unmarshal(value))

(***************************************************************************)
(* query: TermIndexReader, SparseU64IndexReader, OrdersSearchService.       *)
(***************************************************************************)
TermIndexReader_Get(c, reader, fv) ==
    RedisBmStore_Get(c, GetIndexKey(reader.Index), MakeValueKey(reader.T, fv))

AllIndexReader == [T |-> "int64", Index |-> AllIndex]
OrderStatusIndexReader == [T |-> "int64", Index |-> OrderStatusIndex]
ProductIdIndexReader == [T |-> "int64", Index |-> ProductIdIndex]
ProviderIdIndexReader == [T |-> "*int64", Index |-> ProviderIdIndex]
CreateTimeIndexReader == [Index |-> CreateTimeIndex]

Reverse(s) == [i \in 1..Len(s) |-> s[Len(s) + 1 - i]]

RECURSIVE ListProcNeverStops(_, _, _)
\* A faulty callback that appends every id and never stops the scan.
ListProcNeverStops(resultIds, sortedIds, limit) ==
    IF Len(sortedIds) = 0 THEN [resultIds |-> resultIds, more |-> TRUE]
    ELSE ListProcNeverStops(Append(resultIds, sortedIds[1].Id), Tail(sortedIds), limit)

RECURSIVE ListProc(_, _, _)
\* The callback List hands to Scan: resultIds is the slice it appends to.
\* Returns the slice and whether the scan is to go on.
ListProc(resultIds, sortedIds, limit) ==
    IF Len(sortedIds) = 0 THEN [resultIds |-> resultIds, more |-> TRUE]
    ELSE LET appended == Append(resultIds, sortedIds[1].Id)
         IN IF limit.some /\ Len(appended) >= limit.val
            THEN [resultIds |-> appended, more |-> FALSE]
            ELSE ListProc(appended, Tail(sortedIds), limit)

\* The state of a scan: what the callback has collected, the batches it was
\* given, the number of pages read, the caller's bitmap as the scan leaves it
\* and what the scan did in order: "page" for a page of buckets read, "fv" for
\* the forward values of a bucket read, "batch" for a call of the callback.
\* cursors holds the value of start at each test of the loop condition
\* start != end, and sizes the number of buckets of each page read.
ScanState(resultIds, batches, pages, baseBm) ==
    [resultIds |-> resultIds, batches |-> batches, pages |-> pages, more |-> TRUE,
     baseBm |-> baseBm, events |-> <<>>, cursors |-> <<>>, sizes |-> <<>>]

\* A faulty intersection that is computed into the caller's bitmap.
AndIntoBase(sortedBm, baseBm) ==
    [Bitmap |-> sortedBm.Bitmap \cap baseBm, baseBm |-> sortedBm.Bitmap \cap baseBm]

\* A faulty intersection that leaves the bucket as it was decoded.
AndBucketKeepsAll(sortedBm, baseBm) == [Bitmap |-> sortedBm.Bitmap, baseBm |-> baseBm]

\* sortedBm.Bitmap.And(baseBm): the receiver, the bucket just decoded, becomes
\* the intersection; the argument is left as it is.
AndBucket(sortedBm, baseBm) ==
    [Bitmap |-> sortedBm.Bitmap \cap baseBm, baseBm |-> baseBm]

RECURSIVE ScanBuckets(_, _, _, _, _, _, _)
\* The inner loop of Scan over the buckets of one page.
ScanBuckets(c, indexKey, sortedBms, baseBm, reverse, limit, st) ==
    IF Len(sortedBms) = 0 THEN Ok(c, st)
    ELSE LET a == AndBucket(sortedBms[1], baseBm)
             bitmap == a.Bitmap
         IN IF bitmap = {}
            THEN ScanBuckets(c, indexKey, Tail(sortedBms), a.baseBm, reverse, limit,
                             [st EXCEPT !.baseBm = a.baseBm])
            ELSE LET q == QuerySortIds(c, indexKey, bitmap)
                 IN IF q.err # "" THEN q
                    ELSE LET sortedIds == IF reverse THEN Reverse(q.v) ELSE q.v
                             p == ListProc(st.resultIds, sortedIds, limit)
                             st1 == [st EXCEPT !.resultIds = p.resultIds,
                                               !.batches = Append(@, sortedIds),
                                               !.more = p.more,
                                               !.baseBm = a.baseBm,
                                               !.events = @ \o <<"fv", "batch">>]
                         IN IF ~p.more THEN Ok(q.c, st1)
                            ELSE ScanBuckets(q.c, indexKey, Tail(sortedBms), a.baseBm,
                                             reverse, limit, st1)

RECURSIVE ScanPagesStopsOnShortPage(_, _, _, _, _, _, _, _)
\* A faulty outer loop that takes a page of fewer than ScanPageSize buckets for
\* the last one and returns after it without testing the cursor again.
ScanPagesStopsOnShortPage(c, indexKey, start, end, baseBm, reverse, limit, st) ==
    IF start = end THEN Ok(c, [st EXCEPT !.cursors = Append(@, start)])
    ELSE LET r == RedisSortKeyBitmapStore_Scan(c, indexKey, start, end, reverse, ScanPageSize)
         IN IF r.err # "" THEN r
            ELSE LET last == IF Len(r.v) = 0 THEN start ELSE r.v[Len(r.v)].SortKey
                     next == IF last = end THEN last
                             ELSE IF ~reverse THEN (last + 1) % (U64Max + 1)
                             ELSE (last + U64Max) % (U64Max + 1)
                     b == ScanBuckets(r.c, indexKey, r.v, baseBm, reverse, limit,
                                      [st EXCEPT !.pages = @ + 1,
                                                 !.events = Append(@, "page"),
                                                 !.cursors = Append(@, start),
                                                 !.sizes = Append(@, Len(r.v))])
                 IN IF b.err # "" THEN b
                    ELSE IF ~b.v.more \/ Len(r.v) < ScanPageSize THEN b
                    ELSE ScanPagesStopsOnShortPage(b.c, indexKey, next, end, b.v.baseBm,
                                                   reverse, limit, b.v)

RECURSIVE ScanPages(_, _, _, _, _, _, _, _)
\* The outer loop of Scan: for start != end.
ScanPages(c, indexKey, start, end, baseBm, reverse, limit, st) ==
    IF start = end THEN Ok(c, [st EXCEPT !.cursors = Append(@, start)])
    ELSE LET r == RedisSortKeyBitmapStore_Scan(c, indexKey, start, end, reverse, ScanPageSize)
         IN IF r.err # "" THEN r
            ELSE IF Len(r.v) = 0
                 THEN Ok(r.c, [st EXCEPT !.pages = @ + 1, !.events = Append(@, "page"),
                                         !.cursors = Append(@, start),
                                         !.sizes = Append(@, 0)])
            ELSE LET last == r.v[Len(r.v)].SortKey
                     next == IF last = end THEN last
                             ELSE IF ~reverse THEN (last + 1) % (U64Max + 1)
                             ELSE (last + U64Max) % (U64Max + 1)
                     b == ScanBuckets(r.c, indexKey, r.v, baseBm, reverse, limit,
                                      [st EXCEPT !.pages = @ + 1,
                                                 !.events = Append(@, "page"),
                                                 !.cursors = Append(@, start),
                                                 !.sizes = Append(@, Len(r.v))])
                 IN IF b.err # "" THEN b
                    ELSE IF ~b.v.more THEN b
                    ELSE ScanPages(b.c, indexKey, next, end, b.v.baseBm, reverse, limit, b.v)

\* SparseU64IndexReader.Scan with List's callback (limit None: it always returns true).
SparseU64IndexReader_Scan(c, reader, baseBm, reverse, limit) ==
    LET start == IF reverse THEN U64Max ELSE 0
        end == IF reverse THEN 0 ELSE U64Max
    IN ScanPages(c, MakeIndexKey(reader.Index), start, end, baseBm, reverse, limit,
                 ScanState(<<>>, <<>>, 0, baseBm))

FilterModeEq == 0
FilterModeNull == 1
FilterModeNotNull == 2

\* Request: each field None (a nil pointer) or Some.
Request(orderStatusEq, productIDEq, providerIDFilter, limit) ==
    [OrderStatusEq |-> orderStatusEq, ProductIDEq |-> productIDEq,
     ProviderIDFilter |-> providerIDFilter, Limit |-> limit]

NullableValueFilter(mode, value) == [Mode |-> mode, Value |-> value]

Response(ids, total) == [IDs |-> ids, Total |-> total]

\* The accumulator after the order_status filter.
AccOrderStatus(c, r, accBm) ==
    IF ~r.OrderStatusEq.some THEN Ok(c, accBm)
    ELSE LET g == TermIndexReader_Get(c, OrderStatusIndexReader, r.OrderStatusEq.val)
         IN IF g.err # "" THEN g ELSE Ok(g.c, accBm \cap g.v)

\* The accumulator after the product_id filter.
AccProductId(c, r, accBm) ==
    IF ~r.ProductIDEq.some THEN Ok(c, accBm)
    ELSE LET g == TermIndexReader_Get(c, ProductIdIndexReader, r.ProductIDEq.val)
         IN IF g.err # "" THEN g ELSE Ok(g.c, accBm \cap g.v)

\* A faulty provider_id filter that reads "is not null" as "is null".
AccProviderIdNotNullAsNull(c, r, accBm) ==
    IF ~r.ProviderIDFilter.some THEN Ok(c, accBm)
    ELSE LET f == r.ProviderIDFilter.val
             g == TermIndexReader_Get(c, ProviderIdIndexReader,
                      IF f.Mode = FilterModeEq THEN Ptr("filter", f.Value) ELSE NilPtr)
         IN IF g.err # "" THEN g ELSE Ok(g.c, accBm \cap g.v)

\* The accumulator after the provider_id filter.
AccProviderId(c, r, accBm) ==
    IF ~r.ProviderIDFilter.some THEN Ok(c, accBm)
    ELSE LET f == r.ProviderIDFilter.val
             g == TermIndexReader_Get(c, ProviderIdIndexReader,
                      IF f.Mode = FilterModeEq THEN Ptr("filter", f.Value) ELSE NilPtr)
         IN IF f.Mode \notin {FilterModeEq, FilterModeNull, FilterModeNotNull} THEN Ok(c, accBm)
            ELSE IF g.err # "" THEN g
            ELSE IF f.Mode = FilterModeNotNull THEN Ok(g.c, accBm \ g.v)
            ELSE Ok(g.c, accBm \cap g.v)

\* The accumulator bitmap of List: the universe posting cut by every filter.
Accumulate(c, r) ==
    LET a0 == TermIndexReader_Get(c, AllIndexReader, 0)
    IN IF a0.err # "" THEN a0 ELSE
    LET a1 == AccOrderStatus(a0.c, r, a0.v)
    IN IF a1.err # "" THEN a1 ELSE
    LET a2 == AccProductId(a1.c, r, a1.v)
    IN IF a2.err # "" THEN a2 ELSE
    AccProviderId(a2.c, r, a2.v)

\* A faulty List that scans the create_time index before it looks at the limit
\* and the total.
ListScansFirst(c, r) ==
    LET a == Accumulate(c, r)
    IN IF a.err # "" THEN a
       ELSE LET total == Cardinality(a.v)
                sc == SparseU64IndexReader_Scan(a.c, CreateTimeIndexReader, a.v, TRUE, r.Limit)
            IN IF sc.err # "" THEN sc
               ELSE IF (r.Limit.some /\ r.Limit.val = 0) \/ total = 0
               THEN Ok(sc.c, Response(<<>>, total))
               ELSE Ok(sc.c, Response(sc.v.resultIds, total))

\* OrdersSearchService.List.  A Response that never reached the scan has IDs nil,
\* the empty sequence here.
List(c, r) ==
    LET a == Accumulate(c, r)
    IN IF a.err # "" THEN a
       ELSE LET total == Cardinality(a.v)
            IN IF (r.Limit.some /\ r.Limit.val = 0) \/ total = 0
               THEN Ok(a.c, Response(<<>>, total))
               ELSE LET sc == SparseU64IndexReader_Scan(a.c, CreateTimeIndexReader, a.v, TRUE, r.Limit)
                    IN IF sc.err # "" THEN sc
                       ELSE Ok(sc.c, Response(sc.v.resultIds, total))

(***************************************************************************)
(* State.                                                                   *)
(*  db      the orders table the CDC stream is produced from: id -> None or *)
(*          Some(row)                                                       *)
(*  bm      RedisBmStore: hash key -> hash (value key -> serialized bitmap) *)
(*  zs      RedisSortKeyBitmapStore: zset key -> set of members             *)
(*  hm      RedisSortKeyBitmapStore: hash key -> hash (member -> bitmap)    *)
(*  fv      RedisFvStore: hash key -> hash (id -> value)                    *)
(*  log     the messages applied so far, when the run records them          *)
(*  sparse  a create_time index writer driven on its own: the writer and    *)
(*          the value its caller holds for each id (None: not indexed),     *)
(*          and the number of operations made                               *)
(***************************************************************************)
VARIABLES db, bm, zs, hm, fv, log, sparse, ingest, query

kvvars == <<bm, zs, hm, fv>>
vars == <<db, bm, zs, hm, fv, log, sparse, ingest, query>>

\* The Redis state as a context in which the next fuel commands succeed.
Redis(fuel) == Ctx(bm, zs, hm, fv, fuel)

\* The Redis state of a context.
KV(c) == <<c.bm, c.zs, c.hm, c.fv>>

InitRedis ==
    /\ bm = [k \in BmHashKeys |-> EmptyHash]
    /\ zs = [k \in {CtZsetKey} |-> {}]
    /\ hm = [k \in {CtHashKey} |-> EmptyHash]
    /\ fv = [k \in {CtFvKey} |-> EmptyHash]

\* A Redis server that holds nothing.
EmptyRedis ==
    Ctx([k \in BmHashKeys |-> EmptyHash], [k \in {CtZsetKey} |-> {}],
        [k \in {CtHashKey} |-> EmptyHash], [k \in {CtFvKey} |-> EmptyHash], NoFault)

\* The ids and the create_time values a writer driven on its own is given: the
\* values at and next to both ends of the uint64 range.
SparseIds == 1..MaxSparseId
SparseTimes == {0, 1, 2, U64Max - 1, U64Max}

SparseOf(w) == [writer |-> w, at |-> [id \in SparseIds |-> None], ops |-> 0]

\* The goroutines that run ConsumeClaim, one per claimed partition.
Workers == {1, 2}

\* A ConsumeClaim goroutine between two Redis commands: its claim (the messages
\* of its partition), the offset of the next message, the number of messages it
\* marked, the writer calls the handler of the current message still has to
\* make, its position in the first of them and the local that position uses,
\* and, once it has returned, the error it returned.  start records the four
\* stores as they were when the message in hand was received.
ClaimOf(messages) ==
    [claim |-> messages, offset |-> 1, marked |-> 0, calls |-> <<>>, pc |-> "Receive",
     loc |-> <<>>, err |-> "", start |-> <<>>]

\* A partition the session has not claimed: no goroutine runs for it.
Unclaimed == [ClaimOf(<<>>) EXCEPT !.pc = "Unclaimed"]

\* The topic has one partition: the session runs ConsumeClaim once.
OnePartition == [w \in Workers |-> IF w = 1 THEN ClaimOf(<<>>) ELSE Unclaimed]

\* The goroutine has handled every message of its claim.
ClaimDone(w) == ingest[w].pc = "Receive" /\ ingest[w].offset > Len(ingest[w].claim)

\* No List is running.
NoQuery == [pc |-> "Off"]

InitRest ==
    /\ db = [id \in Ids |-> None]
    /\ InitRedis
    /\ log = <<>>
    /\ ingest = OnePartition
    /\ query = NoQuery

Init ==
    /\ InitRest
    /\ sparse = SparseOf(CreateTimeIndexWriter)

(***************************************************************************)
(* Concurrency.  sarama calls ConsumeClaim in one goroutine per claimed     *)
(* partition, all of them on the one saramaConsumer of Consumer.Start (its  *)
(* writers and stores), and List runs in the query service; Redis executes  *)
(* one command at a time.  A step here is one Redis command of one          *)
(* goroutine, computed from what that goroutine read in its earlier steps,  *)
(* together with the code it runs up to its next command.                   *)
(***************************************************************************)
\* A call of a writer method a handler makes.
Call(kind, w, op, fieldValue, id) ==
    [kind |-> kind, w |-> w, op |-> op, fv |-> fieldValue, id |-> id]

\* A faulty Move that adds the id under the new value and leaves it under the old.
TermMoveCallsKeepsOld(w, before, after, id) ==
    IF before = after THEN <<>> ELSE <<Call("term", w, "Add", after, id)>>

\* TermIndexWriter.Move as the calls it makes.
TermMoveCalls(w, before, after, id) ==
    IF before = after THEN <<>>
    ELSE <<Call("term", w, "Remove", before, id), Call("term", w, "Add", after, id)>>

\* SparseU64IndexWriter.Move as the calls it makes.
SparseMoveCalls(w, before, after, id) ==
    IF before = after THEN <<>>
    ELSE <<Call("sparse", w, "Remove", before, id), Call("sparse", w, "Add", after, id)>>

\* A faulty onInsert that writes the create_time index before the term postings.
onInsertCallsSparseFirst(order) ==
    <<Call("sparse", CreateTimeIndexWriter, "Add", order.CreateTime, order.ID),
      Call("term", AllIndexWriter, "Add", 0, order.ID),
      Call("term", OrderStatusIndexWriter, "Add", order.OrderStatus, order.ID),
      Call("term", ProductIdIndexWriter, "Add", order.ProductID, order.ID),
      Call("term", ProviderIdIndexWriter, "Add", order.ProviderID, order.ID)>>

onInsertCalls(order) ==
    <<Call("term", AllIndexWriter, "Add", 0, order.ID),
      Call("term", OrderStatusIndexWriter, "Add", order.OrderStatus, order.ID),
      Call("term", ProductIdIndexWriter, "Add", order.ProductID, order.ID),
      Call("term", ProviderIdIndexWriter, "Add", order.ProviderID, order.ID),
      Call("sparse", CreateTimeIndexWriter, "Add", order.CreateTime, order.ID)>>

onUpdateCalls(before, after) ==
    TermMoveCalls(OrderStatusIndexWriter, before.OrderStatus, after.OrderStatus, after.ID)
    \o TermMoveCalls(ProductIdIndexWriter, before.ProductID, after.ProductID, after.ID)
    \o TermMoveCalls(ProviderIdIndexWriter, before.ProviderID, after.ProviderID, after.ID)
    \o SparseMoveCalls(CreateTimeIndexWriter, before.CreateTime, after.CreateTime, after.ID)

onDeleteCalls(order) ==
    <<Call("term", AllIndexWriter, "Remove", 0, order.ID),
      Call("term", OrderStatusIndexWriter, "Remove", order.OrderStatus, order.ID),
      Call("term", ProductIdIndexWriter, "Remove", order.ProductID, order.ID),
      Call("term", ProviderIdIndexWriter, "Remove", order.ProviderID, order.ID),
      Call("sparse", CreateTimeIndexWriter, "Remove", order.CreateTime, order.ID)>>

\* The switch of ConsumeClaim as the writer calls of the handler it selects.
DispatchCalls(dataChangedMessage) ==
    IF dataChangedMessage.Op \in {"r", "c"} THEN onInsertCalls(dataChangedMessage.After.val)
    ELSE IF dataChangedMessage.Op = "u"
         THEN onUpdateCalls(dataChangedMessage.Before.val, dataChangedMessage.After.val)
    ELSE onDeleteCalls(dataChangedMessage.Before.val)

\* The goroutine goes on to its next command with the local that command uses.
Goto(g, pc, loc) == [g EXCEPT !.pc = pc, !.loc = loc]

\* The goroutine is left with calls to make: it starts the first, or, with none
\* left, the handler returns nil, the message is marked and the loop receives.
NextCall(g, calls) ==
    [g EXCEPT !.calls = calls,
              !.loc = <<>>,
              !.pc = IF Len(calls) = 0 THEN "Receive"
                     ELSE IF calls[1].kind = "term" THEN "Get" ELSE "ZRange",
              !.marked = IF Len(calls) = 0 THEN @ + 1 ELSE @,
              !.start = IF Len(calls) = 0 THEN <<>> ELSE @]

\* ConsumeClaim returns err: the error of the handler, or nil ("").
Returned(g, err) == [g EXCEPT !.pc = "Returned", !.calls = <<>>, !.loc = <<>>, !.err = err]

\* The commands MSet issues for its argument, in order.
MSetCommands(skbms) ==
    LET isEmpty(skbm) == skbm.Bitmap = {}
        isSet(skbm) == skbm.Bitmap # {}
        delKeys == SelectSeq(skbms, isEmpty)
        setSkbms == SelectSeq(skbms, isSet)
        fields == {u64ToHex(delKeys[i].SortKey) : i \in 1..Len(delKeys)}
        members == {u64ToHex(setSkbms[i].SortKey) : i \in 1..Len(setSkbms)}
        pairs == [i \in 1..Len(setSkbms) |->
                     <<u64ToHex(setSkbms[i].SortKey), ToBytes(setSkbms[i].Bitmap)>>]
    IN (IF Len(delKeys) > 0
        THEN <<[cmd |-> "ZRem", members |-> fields, pairs |-> <<>>],
               [cmd |-> "HDel", members |-> fields, pairs |-> <<>>]>>
        ELSE <<>>)
       \o (IF Len(setSkbms) > 0
           THEN <<[cmd |-> "ZAdd", members |-> members, pairs |-> <<>>],
                  [cmd |-> "HMSet", members |-> {}, pairs |-> pairs]>>
           ELSE <<>>)

\* Redis executes one command of MSet.
ExecCommand(c, indexKey, command) ==
    IF command.cmd = "ZRem"
    THEN [c EXCEPT !.zs[makeZsetKey(indexKey)] = @ \ command.members]
    ELSE IF command.cmd = "HDel"
    THEN [c EXCEPT !.hm[makeHashKey(indexKey)] = HDel(@, command.members)]
    ELSE IF command.cmd = "ZAdd"
    THEN [c EXCEPT !.zs[makeZsetKey(indexKey)] = @ \cup command.members]
    ELSE [c EXCEPT !.hm[makeHashKey(indexKey)] = HMSet(@, command.pairs)]

\* The first half of Scan: ZRANGE BYLEX of the sort keys.
ScanKeys(c, indexKey, start, stop, reverse, limit) ==
    IF Fails(c) THEN Err(c, "ZRange failed")
    ELSE Ok(Tick(c), ZRangeByLex(c.zs[makeZsetKey(indexKey)],
                                 IF ~reverse THEN u64ToHex(start) ELSE u64ToHex(stop),
                                 IF ~reverse THEN u64ToHex(stop) ELSE u64ToHex(start),
                                 reverse, limit))

\* A context in which any Redis command fails: what a function returns in it,
\* it computes without Redis.
NoRedis == [EmptyRedis EXCEPT !.fuel = 0]

\* Add or Remove of the sparse writer after getFloorSortedBm returned floor: Add
\* goes on to read the forward values when it has to split the bucket, else to
\* write the forward value; Remove to MSet of the bucket without the id, or,
\* with no floor bucket, to the deletion of the forward entry.
AfterFloor(g, floor) ==
    IF g.calls[1].op = "Add"
    THEN IF UpdateSortedBms(NoRedis, g.calls[1].w, MakeIndexKey(g.calls[1].w.Index),
                            floor, g.calls[1].fv).err # ""
         THEN Goto(g, "MGet", floor)
         ELSE Goto(g, "FvSet", UpdateSortedBms(NoRedis, g.calls[1].w,
                                               MakeIndexKey(g.calls[1].w.Index),
                                               floor, g.calls[1].fv).v)
    ELSE IF floor.found
         THEN Goto(g, "MSet",
                   MSetCommands(<<SortKeyBitmap(floor.skbm.SortKey,
                                                floor.skbm.Bitmap \ {g.calls[1].id})>>))
         ELSE Goto(g, "FvDel", <<>>)

\* A step of a goroutine that writes to Redis leaves the stores of c.
Stored(c) ==
    /\ bm' = c.bm
    /\ zs' = c.zs
    /\ hm' = c.hm
    /\ fv' = c.fv

\* A faulty loop whose default case marks the message and goes on.
ClaimReceiveSkipsUnknown ==
    \E w \in Workers :
       /\ ingest[w].pc = "Receive"
       /\ ingest[w].offset <= Len(ingest[w].claim)
       /\ \E m \in {Unmarshal(ingest[w].claim[ingest[w].offset])} :
             ingest' = [ingest EXCEPT ![w] =
                          IF m.err # "" THEN Returned([@ EXCEPT !.offset = @ + 1], m.err)
                          ELSE NextCall([@ EXCEPT !.offset = @ + 1, !.start = kvvars],
                                        IF m.Op \in {"r", "c", "u", "d"} THEN DispatchCalls(m)
                                        ELSE <<>>)]
       /\ UNCHANGED <<db, bm, zs, hm, fv, log, sparse, query>>

\* ConsumeClaim receives the next message of its claim and selects the handler;
\* a value json.Unmarshal rejects, and the default case of the switch, make it
\* return an error.
ClaimReceive ==
    \E w \in Workers :
       /\ ingest[w].pc = "Receive"
       /\ ingest[w].offset <= Len(ingest[w].claim)
       /\ \E m \in {Unmarshal(ingest[w].claim[ingest[w].offset])} :
             ingest' = [ingest EXCEPT ![w] =
                          IF m.err # "" THEN Returned([@ EXCEPT !.offset = @ + 1], m.err)
                          ELSE IF m.Op \in {"r", "c", "u", "d"}
                          THEN NextCall([@ EXCEPT !.offset = @ + 1, !.start = kvvars],
                                        DispatchCalls(m))
                          ELSE Returned([@ EXCEPT !.offset = @ + 1], "Unknown op")]
       /\ UNCHANGED <<db, bm, zs, hm, fv, log, sparse, query>>

\* Add or Remove of a term writer reads the posting: HGET.
ClaimTermGet ==
    \E w \in Workers :
       /\ ingest[w].pc = "Get"
       /\ \E g \in {RedisBmStore_Get(Redis(NoFault), GetIndexKey(ingest[w].calls[1].w.Index),
                                     MakeValueKey(ingest[w].calls[1].w.T,
                                                  ingest[w].calls[1].fv))} :
             ingest' = [ingest EXCEPT ![w] = Goto(@, "Set", g.v)]
       /\ UNCHANGED <<db, bm, zs, hm, fv, log, sparse, query>>

\* Add or Remove of a term writer stores the posting it read with the id added
\* or removed: HSET, or HDEL when it is empty.
ClaimTermSet ==
    \E w \in Workers :
       /\ ingest[w].pc = "Set"
       /\ \E r \in {RedisBmStore_Set(Redis(NoFault), GetIndexKey(ingest[w].calls[1].w.Index),
                                     MakeValueKey(ingest[w].calls[1].w.T,
                                                  ingest[w].calls[1].fv),
                                     IF ingest[w].calls[1].op = "Add"
                                     THEN ingest[w].loc \cup {ingest[w].calls[1].id}
                                     ELSE ingest[w].loc \ {ingest[w].calls[1].id})} :
             Stored(r.c)
       /\ ingest' = [ingest EXCEPT ![w] = NextCall(@, Tail(@.calls))]
       /\ UNCHANGED <<db, log, sparse, query>>

\* getFloorSortedBm of the sparse writer reads the floor sort key: ZRANGE.
ClaimFloorKeys ==
    \E w \in Workers :
       /\ ingest[w].pc = "ZRange"
       /\ \E r \in {ScanKeys(Redis(NoFault), MakeIndexKey(ingest[w].calls[1].w.Index),
                             ingest[w].calls[1].fv, 0, TRUE, 1)} :
             ingest' = [ingest EXCEPT ![w] =
                          IF Len(r.v) = 0 THEN AfterFloor(@, [found |-> FALSE])
                          ELSE Goto(@, "HMGet", r.v)]
       /\ UNCHANGED <<db, bm, zs, hm, fv, log, sparse, query>>

\* getFloorSortedBm reads the bitmap of the floor sort key: HMGET.
ClaimFloorValues ==
    \E w \in Workers :
       /\ ingest[w].pc = "HMGet"
       /\ \E r \in {ScanValues(Redis(NoFault),
                               makeHashKey(MakeIndexKey(ingest[w].calls[1].w.Index)),
                               ingest[w].loc)} :
             ingest' = [ingest EXCEPT ![w] =
                          IF r.err # "" THEN Returned(@, r.err)
                          ELSE AfterFloor(@, [found |-> TRUE, skbm |-> r.v[1]])]
       /\ UNCHANGED <<db, bm, zs, hm, fv, log, sparse, query>>

\* Add on the split path reads the forward values of the floor bucket's ids
\* (HMGET) and makes the two buckets.
ClaimSortIds ==
    \E w \in Workers :
       /\ ingest[w].pc = "MGet"
       /\ \E u \in {UpdateSortedBms(Redis(NoFault), ingest[w].calls[1].w,
                                    MakeIndexKey(ingest[w].calls[1].w.Index),
                                    ingest[w].loc, ingest[w].calls[1].fv)} :
             ingest' = [ingest EXCEPT ![w] = Goto(@, "FvSet", u.v)]
       /\ UNCHANGED <<db, bm, zs, hm, fv, log, sparse, query>>

\* Add writes the forward value of the id (HSET) and goes on to MSet of the
\* buckets, the id added to the first.
ClaimForwardSet ==
    \E w \in Workers :
       /\ ingest[w].pc = "FvSet"
       /\ \E r \in {RedisFvStore_Set(Redis(NoFault), MakeIndexKey(ingest[w].calls[1].w.Index),
                                     ingest[w].calls[1].id, ingest[w].calls[1].fv)} :
             Stored(r.c)
       /\ ingest' = [ingest EXCEPT ![w] =
                       Goto(@, "MSet",
                            MSetCommands([@.loc EXCEPT ![1].Bitmap =
                                             @ \cup {ingest[w].calls[1].id}]))]
       /\ UNCHANGED <<db, log, sparse, query>>

\* MSet issues its next command: ZREM, HDEL, ZADD or HMSET.
ClaimMSetCommand ==
    \E w \in Workers :
       /\ ingest[w].pc = "MSet"
       /\ Stored(ExecCommand(Redis(NoFault), MakeIndexKey(ingest[w].calls[1].w.Index),
                             ingest[w].loc[1]))
       /\ ingest' = [ingest EXCEPT ![w] =
                       IF Len(@.loc) > 1 THEN Goto(@, "MSet", Tail(@.loc))
                       ELSE IF @.calls[1].op = "Add" THEN NextCall(@, Tail(@.calls))
                       ELSE Goto(@, "FvDel", <<>>)]
       /\ UNCHANGED <<db, log, sparse, query>>

\* Remove deletes the forward entry of the id: HDEL.
ClaimForwardRemove ==
    \E w \in Workers :
       /\ ingest[w].pc = "FvDel"
       /\ \E r \in {RedisFvStore_Remove(Redis(NoFault),
                                        MakeIndexKey(ingest[w].calls[1].w.Index),
                                        ingest[w].calls[1].id)} :
             Stored(r.c)
       /\ ingest' = [ingest EXCEPT ![w] = NextCall(@, Tail(@.calls))]
       /\ UNCHANGED <<db, log, sparse, query>>

\* The posting Add or Remove of a term writer is about to store.
PostingToStore(g) ==
    IF g.calls[1].op = "Add" THEN g.loc \cup {g.calls[1].id} ELSE g.loc \ {g.calls[1].id}

\* The error the method under way returns when its next Redis command fails.
CommandError(g) ==
    IF g.pc = "Get"
    THEN RedisBmStore_Get(NoRedis, GetIndexKey(g.calls[1].w.Index),
                          MakeValueKey(g.calls[1].w.T, g.calls[1].fv)).err
    ELSE IF g.pc = "Set"
    THEN RedisBmStore_Set(NoRedis, GetIndexKey(g.calls[1].w.Index),
                          MakeValueKey(g.calls[1].w.T, g.calls[1].fv), PostingToStore(g)).err
    ELSE IF g.pc = "ZRange"
    THEN ScanKeys(NoRedis, MakeIndexKey(g.calls[1].w.Index), g.calls[1].fv, 0, TRUE, 1).err
    ELSE IF g.pc = "HMGet"
    THEN ScanValues(NoRedis, makeHashKey(MakeIndexKey(g.calls[1].w.Index)), g.loc).err
    ELSE IF g.pc = "MGet"
    THEN UpdateSortedBms(NoRedis, g.calls[1].w, MakeIndexKey(g.calls[1].w.Index),
                         g.loc, g.calls[1].fv).err
    ELSE IF g.pc = "FvSet"
    THEN RedisFvStore_Set(NoRedis, MakeIndexKey(g.calls[1].w.Index),
                          g.calls[1].id, g.calls[1].fv).err
    ELSE IF g.pc = "MSet" THEN g.loc[1].cmd \o " failed"
    ELSE RedisFvStore_Remove(NoRedis, MakeIndexKey(g.calls[1].w.Index), g.calls[1].id).err

\* A faulty loop that marks the message and goes on when the handler returned
\* an error.
ClaimFailMarks ==
    \E w \in Workers :
       /\ ingest[w].pc \notin {"Receive", "Returned", "Unclaimed"}
       /\ ingest' = [ingest EXCEPT ![w] = NextCall(@, <<>>)]
       /\ UNCHANGED <<db, bm, zs, hm, fv, log, sparse, query>>

\* The Redis command a goroutine is about to issue fails: the store method, the
\* writer and the handler return the error, and ConsumeClaim returns it.
ClaimFail ==
    \E w \in Workers :
       /\ ingest[w].pc \notin {"Receive", "Returned", "Unclaimed"}
       /\ ingest' = [ingest EXCEPT ![w] = Returned(@, CommandError(@))]
       /\ UNCHANGED <<db, bm, zs, hm, fv, log, sparse, query>>

\* The message channel is closed or the session is done: ConsumeClaim returns nil.
Close ==
    \E w \in Workers :
       /\ ingest[w].pc = "Receive"
       /\ ingest' = [ingest EXCEPT ![w] = Returned(@, "")]
       /\ UNCHANGED <<db, bm, zs, hm, fv, log, sparse, query>>

\* The messages the table can emit next, its rows drawn from rows[id]: an insert
\* (snapshot read or create) of an absent id, an update or a delete of a live
\* row with its current image.
InsertMessages(rows) == {Message(op, None, Some(row)) :
                      op \in {"r", "c"}, row \in UNION {rows[id] : id \in {i \in Ids : ~db[i].some}}}
UpdateMessages(rows) == {Message("u", db[row.id], Some(row)) :
                      row \in UNION {rows[id] : id \in {i \in Ids : db[i].some}}}
DeleteMessages == {Message("d", db[id], None) : id \in {i \in Ids : db[i].some}}

\* The table after the change a message reports.
Commit(table, value) ==
    IF value.op = "d" THEN [table EXCEPT ![value.before.val.id] = None]
    ELSE [table EXCEPT ![value.after.val.id] = value.after]

\* Every published change has been applied: no goroutine is inside a handler
\* or has a message left to receive, and the claims hold no message.
FullyApplied ==
    \A w \in Workers : ingest[w].pc = "Unclaimed" \/ (ClaimDone(w) /\ ingest[w].claim = <<>>)

\* What follows a delete event in the topic: nothing, or its tombstone.
AfterDelete == {<<>>, <<Tombstone>>}

\* The records the connector publishes for a change.
Published(value) ==
    IF value.op = "d" THEN {<<value>> \o rest : rest \in AfterDelete} ELSE {<<value>>}

\* The change a message reports is committed in the table and its records
\* are published to the partition goroutine 1 has claimed, while the
\* partition holds fewer than MaxBacklog messages from the start of the claim.
Publish(value) ==
    /\ Len(ingest[1].claim) < MaxBacklog
    /\ db' = Commit(db, value)
    /\ \E records \in Published(value) :
          ingest' = [ingest EXCEPT ![1].claim = @ \o records]

\* Every ConsumeClaim of the session has returned, with an error or with nil:
\* Consume returns and the loop of Consumer.Start calls it again.  ConsumeClaim
\* of the new session has the claim that starts after the last marked message,
\* so a message that was received and not marked is delivered again, to the
\* stores as the failed handler left them.  (Offsets are counted from the
\* start of the claim.)
NewSession ==
    /\ \A w \in Workers : ingest[w].pc \in {"Returned", "Unclaimed"}
    /\ \E w \in Workers : ingest[w].pc = "Returned"
    /\ ingest' = [w \in Workers |->
                    IF ingest[w].pc = "Returned"
                    THEN ClaimOf(SubSeq(ingest[w].claim, ingest[w].marked + 1,
                                        Len(ingest[w].claim)))
                    ELSE ingest[w]]
    /\ UNCHANGED <<db, bm, zs, hm, fv, log, sparse, query>>

Apply(value) == Publish(value) /\ UNCHANGED <<bm, zs, hm, fv, log, sparse, query>>

Insert == \E value \in InsertMessages(GenRows) : Apply(value)

Update == \E value \in UpdateMessages(GenRows) : Apply(value)

Delete == \E value \in DeleteMessages : Apply(value)

\* The table changes, the goroutine of ConsumeClaim applies the changes one
\* Redis command at a time, the session ends and the next one starts.
Next ==
    \/ Insert \/ Update \/ Delete
    \/ ClaimReceive \/ ClaimTermGet \/ ClaimTermSet \/ ClaimFloorKeys \/ ClaimFloorValues
    \/ ClaimSortIds \/ ClaimForwardSet \/ ClaimMSetCommand \/ ClaimForwardRemove
    \/ Close \/ NewSession

Spec == Init /\ [][Next]_vars

(***************************************************************************)
(* The same worker fed rows that vary in every term field.                  *)
(***************************************************************************)
TermInsert == \E value \in InsertMessages(TermRows) : Apply(value)

TermUpdate == \E value \in UpdateMessages(TermRows) : Apply(value)

TermDelete == \E value \in DeleteMessages : Apply(value)

NextTerms ==
    \/ TermInsert \/ TermUpdate \/ TermDelete
    \/ ClaimReceive \/ ClaimTermGet \/ ClaimTermSet \/ ClaimFloorKeys \/ ClaimFloorValues
    \/ ClaimSortIds \/ ClaimForwardSet \/ ClaimMSetCommand \/ ClaimForwardRemove
    \/ Close \/ NewSession

SpecTerms == Init /\ [][NextTerms]_vars

(***************************************************************************)
(* Redelivery.  The change events are recorded as they are published.  A    *)
(* new session delivers the messages that were not marked; what a second    *)
(* delivery of marked messages would do is computed from the record by      *)
(* Redeliver.                                                               *)
(***************************************************************************)
Record(value) ==
    /\ Len(log) < MaxLog
    /\ Publish(value)
    /\ log' = Append(log, value)
    /\ UNCHANGED <<bm, zs, hm, fv, sparse, query>>

RecordInsert == \E value \in InsertMessages(GenRows) : Record(value)

RecordUpdate == \E value \in UpdateMessages(GenRows) : Record(value)

RecordDelete == \E value \in DeleteMessages : Record(value)

NextReplay ==
    \/ RecordInsert \/ RecordUpdate \/ RecordDelete
    \/ ClaimReceive \/ ClaimTermGet \/ ClaimTermSet \/ ClaimFloorKeys \/ ClaimFloorValues
    \/ ClaimSortIds \/ ClaimForwardSet \/ ClaimMSetCommand \/ ClaimForwardRemove
    \/ Close \/ NewSession

SpecReplay == Init /\ [][NextReplay]_vars

RECURSIVE Redeliver(_, _)
\* The context after ConsumeClaim has handled the messages of values in order.
Redeliver(c, values) ==
    IF Len(values) = 0 THEN c
    ELSE Redeliver(ConsumeMessage(c, values[1]).c, Tail(values))

(***************************************************************************)
(* Ingest with failures.  The table emits messages to the partition; one    *)
(* ConsumeClaim goroutine reads them in offset order, one Redis command at  *)
(* a time, and any command may fail; when ConsumeClaim has returned, the    *)
(* next session delivers the unmarked messages again.  The run starts on    *)
(* the empty index, or on the index of two rows of one create_time, whose   *)
(* bucket is full; log holds the messages published in the run.             *)
(***************************************************************************)
IngestPriors ==
    {<<>>,
     <<Message("c", None, Some(Row(1, 1, 7, None, 0))),
       Message("c", None, Some(Row(2, 2, 7, Some(5), 0)))>>}

RECURSIVE Committed(_, _)
\* The table after the changes the messages of values report.
Committed(table, values) ==
    IF Len(values) = 0 THEN table
    ELSE Committed(Commit(table, values[1]), Tail(values))

InitIngest ==
    /\ sparse = SparseOf(CreateTimeIndexWriter)
    /\ ingest = OnePartition
    /\ query = NoQuery
    /\ \E prior \in IngestPriors :
          /\ log = <<>>
          /\ db = Committed([id \in Ids |-> None], prior)
          /\ \E c \in {Redeliver(EmptyRedis, prior)} :
                /\ bm = c.bm
                /\ zs = c.zs
                /\ hm = c.hm
                /\ fv = c.fv

\* The table changes and the records of the change are published, MaxMessages
\* records in a run.
Produce ==
    /\ \E value \in InsertMessages(GenRows) \cup UpdateMessages(GenRows) \cup DeleteMessages :
          \E records \in Published(value) :
             /\ Len(log) + Len(records) <= MaxMessages
             /\ db' = Commit(db, value)
             /\ ingest' = [ingest EXCEPT ![1].claim = @ \o records]
             /\ log' = log \o records
    /\ UNCHANGED <<bm, zs, hm, fv, sparse, query>>

\* An event of an op the consumer has no case for (a truncate) is published.
ProduceOther ==
    /\ Len(log) < MaxMessages
    /\ ingest' = [ingest EXCEPT ![1].claim = Append(@, Message("t", None, None))]
    /\ log' = Append(log, Message("t", None, None))
    /\ UNCHANGED <<db, bm, zs, hm, fv, sparse, query>>

NextIngest ==
    \/ Produce \/ ProduceOther
    \/ ClaimReceive \/ ClaimTermGet \/ ClaimTermSet \/ ClaimFloorKeys \/ ClaimFloorValues
    \/ ClaimSortIds \/ ClaimForwardSet \/ ClaimMSetCommand \/ ClaimForwardRemove
    \/ ClaimFail \/ Close \/ NewSession

SpecIngest == InitIngest /\ [][NextIngest]_vars

(***************************************************************************)
(* The create_time index writer on its own: any sequence of Add, Remove and *)
(* Move a caller that knows each id's current value can make, for every     *)
(* split threshold from 2 to MaxThreshold.  sparse.at is what the caller    *)
(* knows: the value of each id after the calls it has made.                 *)
(***************************************************************************)
InitSparse ==
    /\ InitRest
    /\ \E t \in 2..MaxThreshold :
          sparse = SparseOf([Index |-> CreateTimeIndex, SplitThreshold |-> t])

\* The caller, goroutine 1 with no call under way, makes the calls: the writer
\* then runs one Redis command at a time.
SparseCalls(calls) ==
    /\ sparse.ops < MaxOps
    /\ ClaimDone(1)
    /\ ingest' = [ingest EXCEPT ![1] = NextCall(@, calls)]
    /\ UNCHANGED <<db, bm, zs, hm, fv, log, query>>

SparseAdd ==
    \E id \in {i \in SparseIds : ~sparse.at[i].some} : \E t \in SparseTimes :
       /\ SparseCalls(<<Call("sparse", sparse.writer, "Add", t, id)>>)
       /\ sparse' = [sparse EXCEPT !.at[id] = Some(t), !.ops = @ + 1]

SparseRemove ==
    \E id \in {i \in SparseIds : sparse.at[i].some} :
       /\ SparseCalls(<<Call("sparse", sparse.writer, "Remove", sparse.at[id].val, id)>>)
       /\ sparse' = [sparse EXCEPT !.at[id] = None, !.ops = @ + 1]

SparseMove ==
    \E id \in {i \in SparseIds : sparse.at[i].some} : \E t \in SparseTimes :
       /\ SparseCalls(SparseMoveCalls(sparse.writer, sparse.at[id].val, t, id))
       /\ sparse' = [sparse EXCEPT !.at[id] = Some(t), !.ops = @ + 1]

NextSparse ==
    \/ SparseAdd \/ SparseRemove \/ SparseMove
    \/ ClaimFloorKeys \/ ClaimFloorValues \/ ClaimSortIds \/ ClaimForwardSet
    \/ ClaimMSetCommand \/ ClaimForwardRemove

SpecSparse == InitSparse /\ [][NextSparse]_vars

(***************************************************************************)
(* What the state holds, read off the variables.                            *)
(***************************************************************************)
Live == {id \in Ids : db[id].some}

\* The stored posting of a term field's value key (a missing field is empty).
Posting(index, valueKey) == parseBitmap(HGet(bm[BmPrefix \o GetIndexKey(index)], valueKey))

\* The sort keys of the create_time buckets: the members of the sorted set and
\* the fields of the hash.
BucketMembers == zs[CtZsetKey] \cup DOMAIN hm[CtHashKey]

\* The ids stored under a member.
BucketIds(member) == parseBitmap(HGet(hm[CtHashKey], member))

\* The buckets that hold an id.
BucketsOf(id) == {m \in BucketMembers : id \in BucketIds(m)}

HasForward(id) == Sprint(id) \in DOMAIN fv[CtFvKey]

Forward(id) == ParseUint(fv[CtFvKey][Sprint(id)], 10)

(***************************************************************************)
(* The orders table as SQL reads it.                                        *)
(***************************************************************************)
Matches(r, row) ==
    /\ r.OrderStatusEq.some => row.order_status = r.OrderStatusEq.val
    /\ r.ProductIDEq.some => row.product_id = r.ProductIDEq.val
    /\ r.ProviderIDFilter.some =>
          LET f == r.ProviderIDFilter.val
          IN IF f.Mode = FilterModeEq THEN row.provider_id = Some(f.Value)
             ELSE IF f.Mode = FilterModeNull THEN ~row.provider_id.some
             ELSE row.provider_id.some

\* SELECT id FROM orders WHERE ... (as a set)
SqlSelect(r) == {id \in Live : Matches(r, db[id].val)}

RECURSIVE SqlOrdered(_)
\* ORDER BY create_time DESC, id DESC
SqlOrdered(ids) ==
    IF ids = {} THEN <<>>
    ELSE LET top == CHOOSE a \in ids : \A b \in ids :
                        \/ db[a].val.create_time > db[b].val.create_time
                        \/ db[a].val.create_time = db[b].val.create_time /\ a >= b
         IN <<top>> \o SqlOrdered(ids \ {top})

\* LIMIT n
Take(s, n) == SubSeq(s, 1, IF Len(s) < n THEN Len(s) ELSE n)

\* The filters of the queries the properties range over (values with and
\* without rows).
StatusFilters == {None} \cup {Some(v) : v \in OrderStatuses}
ProductFilters == {None} \cup {Some(v) : v \in ProductIds}
ProviderFilters == {None, Some(NullableValueFilter(FilterModeNull, 0)),
                    Some(NullableValueFilter(FilterModeNotNull, 0))}
                   \cup {Some(NullableValueFilter(FilterModeEq, p.val)) : p \in ProviderIds \ {None}}

Requests(limits) == {Request(st, pr, pv, l) : st \in StatusFilters, pr \in ProductFilters,
                                              pv \in ProviderFilters, l \in limits}

(***************************************************************************)
(* C1.  After fully applied well-formed events, for every combination of    *)
(* filters and every limit L >= 1, List returns as IDs the first L ids of   *)
(* the live rows matching the filters, by create_time descending and then   *)
(* id descending (what FuzzQuery compares with SQL).                        *)
(***************************************************************************)
C1_ListEqualsSql ==
    FullyApplied =>
       \A r \in Requests({Some(l) : l \in 1..MaxLimit}) :
           LET resp == List(Redis(NoFault), r)
           IN resp.err = "" /\ resp.v.IDs = Take(SqlOrdered(SqlSelect(r)), r.Limit.val)

(***************************************************************************)
(* C3.  After fully applied events each live row id appears in exactly one  *)
(* bucket of the create_time sparse index.                                  *)
(***************************************************************************)
C3_ExactlyOneBucket == FullyApplied => \A id \in Live : Cardinality(BucketsOf(id)) = 1

(***************************************************************************)
(* C5.  Once a delete event of a live row has been applied, its id is in no *)
(* bucket of the sparse index and has no forward entry.                     *)
(***************************************************************************)
\* The message ConsumeClaim of w received last.
Handled(w) == ingest[w].claim[ingest[w].offset - 1]

C5_DeleteClears ==
    [][(ingest[1]'.marked = ingest[1].marked + 1 /\ Handled(1)'.op = "d") =>
          \A id \in Ids :
             Handled(1)'.before.val.id = id => (BucketsOf(id)' = {} /\ ~HasForward(id)')]_vars

(***************************************************************************)
(* C6.  After fully applied events, for any two buckets with sort keys      *)
(* k1 < k2, every id stored in bucket k1 has a forward value strictly less  *)
(* than k2.                                                                 *)
(***************************************************************************)
C6_BucketOrdering ==
    FullyApplied =>
       \A m1, m2 \in BucketMembers :
           hexToU64(m1) < hexToU64(m2) =>
               \A id \in BucketIds(m1) : HasForward(id) => Forward(id) < hexToU64(m2)

(***************************************************************************)
(* C7.  After fully applied events every id present in any bucket has an    *)
(* entry in the forward map.                                                *)
(***************************************************************************)
C7_ForwardCoverage ==
    FullyApplied => \A m \in BucketMembers : \A id \in BucketIds(m) : HasForward(id)
(***************************************************************************)
(* C2.  After fully applied well-formed events, for every combination of    *)
(* filters and any limit, List returns as Total the number of live rows     *)
(* whose current field values satisfy all the filters.                      *)
(***************************************************************************)
C2_TotalEqualsCount ==
    FullyApplied =>
       \A r \in Requests({None, Some(0), Some(1)}) :
           LET resp == List(Redis(NoFault), r)
           IN resp.err = "" /\ resp.v.Total = Cardinality(SqlSelect(r))

\* Live rows with and without a provider and of both statuses, so that the
\* filters select different non-empty sets of rows.
C2_Witness ==
    /\ FullyApplied
    /\ \E a, b \in Live : /\ ~db[a].val.provider_id.some
                          /\ db[b].val.provider_id.some
                          /\ db[a].val.order_status # db[b].val.order_status
    /\ Cardinality(Live) = MaxId
    /\ List(Redis(NoFault),
            Request(None, None, Some(NullableValueFilter(FilterModeNotNull, 0)), None)).v.Total
          \in 1..(MaxId - 1)

(***************************************************************************)
(* C8.  After fully applied well-formed events, the posting of every value  *)
(* of every term field (null included for provider_id) is exactly the set   *)
(* of live ids whose current field has that value, and the universe posting *)
(* is exactly the set of live ids; so an id whose field was updated from a  *)
(* to b is in the posting of b and no longer in that of a.                  *)
(***************************************************************************)
ProviderValueKey(pv) == IF pv.some THEN Sprint(pv.val) ELSE NullKey

C8_TermPostingsExact ==
    FullyApplied =>
    /\ Posting(AllIndex, Sprint(0)) = Live
    /\ DOMAIN bm[BmPrefix \o GetIndexKey(AllIndex)] \subseteq {Sprint(0)}
    /\ \A v \in 0..9 :
          /\ Posting(OrderStatusIndex, Sprint(v)) = {id \in Live : db[id].val.order_status = v}
          /\ Posting(ProductIdIndex, Sprint(v)) = {id \in Live : db[id].val.product_id = v}
          /\ Posting(ProviderIdIndex, Sprint(v)) = {id \in Live : db[id].val.provider_id = Some(v)}
    /\ Posting(ProviderIdIndex, NullKey) = {id \in Live : db[id].val.provider_id = None}
    /\ DOMAIN bm[BmPrefix \o GetIndexKey(OrderStatusIndex)] \subseteq {Sprint(v) : v \in OrderStatuses}
    /\ DOMAIN bm[BmPrefix \o GetIndexKey(ProductIdIndex)] \subseteq {Sprint(v) : v \in ProductIds}
    /\ DOMAIN bm[BmPrefix \o GetIndexKey(ProviderIdIndex)] \subseteq {ProviderValueKey(pv) : pv \in ProviderIds}

\* Every id is live, the postings of two values of each field are non-empty and
\* so is the null posting of provider_id.
C8_Witness ==
    /\ FullyApplied
    /\ Live = Ids
    /\ \A v \in OrderStatuses : Posting(OrderStatusIndex, Sprint(v)) # {}
    /\ \A v \in ProductIds : Posting(ProductIdIndex, Sprint(v)) # {}
    /\ \A pv \in {None, Some(5)} : Posting(ProviderIdIndex, ProviderValueKey(pv)) # {}
(***************************************************************************)
(* C4.  Delivering again any suffix of the applied messages leaves the      *)
(* whole Redis state (term postings, universe posting, bucket keys and      *)
(* bitmaps, forward map) as it was after the single application.            *)
(***************************************************************************)
C4_ReplayLeavesState ==
    FullyApplied =>
       \A k \in 1..Len(log) :
           KV(Redeliver(Redis(NoFault), SubSeq(log, k, Len(log)))) = kvvars

(***************************************************************************)
(* C9.  A message is marked only after every index mutation of its event    *)
(* has returned without error; when a mutation fails ConsumeClaim returns   *)
(* the error, the message is not marked, and the invocation applies no      *)
(* later message.                                                           *)
(***************************************************************************)
\* The sub-writes a handler makes for an op, by field name, in the order stated.
SubWriteOrder(op) ==
    IF op \in {"r", "c", "d"}
    THEN <<"__all", "order_status", "product_id", "provider_id", "create_time">>
    ELSE IF op = "u" THEN <<"order_status", "product_id", "provider_id", "create_time">>
    ELSE <<>>

\* What the sub-write of a field writes to: the hash of its term index, or the
\* sorted set, the hash and the forward map of the sparse index.
SubWriteState(field, b, z, h, f) ==
    IF field = "create_time" THEN <<z, h, f>>
    ELSE b[BmPrefix \o GetIndexKey([TableName |-> "orders", FieldName |-> field])]

\* Redis when the goroutine received the message it is handling.
StartOf(g) == Ctx(g.start[1], g.start[2], g.start[3], g.start[4], NoFault)

\* Redis when goroutine 1 received, or receives in this step, its last message.
AtReceipt ==
    IF ingest[1].pc = "Receive" THEN Ctx(bm, zs, hm, fv, NoFault) ELSE StartOf(ingest[1])

\* Goroutine 1 is inside the handler of a message.
Handling == ingest[1].pc \notin {"Receive", "Returned", "Unclaimed"}

\* C9: a message is marked only by the step that completes the last command of
\* its handler, with Redis then holding the whole event and every earlier
\* message marked; a failing command ends ConsumeClaim with that error and the
\* message unmarked; after the return the invocation changes nothing, and the
\* next one starts at the first unmarked message.
C9_MarkOnlyAfterSuccess ==
    [][/\ (ingest[1]'.marked # ingest[1].marked /\ ingest[1].pc # "Returned") =>
             /\ ingest[1]'.pc = "Receive"
             /\ ingest[1]'.err = ""
             /\ ingest[1]'.marked = ingest[1].marked + 1
             /\ ingest[1]'.marked = ingest[1]'.offset - 1
             /\ ingest[1]'.calls = <<>>
             /\ kvvars' = KV(ConsumeMessage(AtReceipt, Handled(1)').c)
             /\ ConsumeMessage(AtReceipt, Handled(1)').err = ""
       /\ (Handling /\ ingest[1]'.pc = "Returned") =>
             /\ ingest[1]'.err # ""
             /\ ingest[1]'.marked = ingest[1].marked
             /\ ingest[1]'.marked = ingest[1]'.offset - 2
             /\ kvvars' = kvvars
             /\ \E n \in 0..MaxFault :
                   \E r \in {ConsumeMessage([StartOf(ingest[1]) EXCEPT !.fuel = n], Handled(1))} :
                      /\ r.err = ingest[1]'.err
                      /\ KV(r.c) = kvvars'
       /\ ingest[1].pc = "Returned" =>
             /\ kvvars' = kvvars
             /\ \/ [ingest[1]' EXCEPT !.claim = <<>>] = [ingest[1] EXCEPT !.claim = <<>>]
                \/ ingest[1]' = ClaimOf(SubSeq(ingest[1].claim, ingest[1].marked + 1,
                                               Len(ingest[1].claim)))]_vars

\* The first message was applied and marked, the second failed in the middle:
\* ConsumeClaim has returned its error and offset 2 is not marked.
C9_Witness ==
    /\ Len(ingest[1].claim) = 2
    /\ ingest[1].pc = "Returned"
    /\ ingest[1].err # ""
    /\ ingest[1].marked = 1
    /\ ingest[1].offset = 3
    /\ ingest[1].start # <<>>
    /\ kvvars # KV(StartOf(ingest[1]))
    /\ kvvars # KV(ConsumeMessage(StartOf(ingest[1]), Handled(1)).c)

(***************************************************************************)
(* C10.  Within one event the sub-writes happen in a fixed order: on insert *)
(* and on delete the universe posting, then order_status, product_id and    *)
(* provider_id, then the create_time index; on update order_status,         *)
(* product_id, provider_id, then create_time.  When sub-write k fails, the  *)
(* sub-writes before k stay applied and those after k are not attempted.    *)
(***************************************************************************)
\* The field of each of the calls, and the place of a field in an order.
FieldsOf(calls) == [i \in 1..Len(calls) |-> calls[i].w.Index.FieldName]
PlaceIn(order, field) == CHOOSE i \in 1..Len(order) : order[i] = field

\* C10: the calls of a handler go through the fields in the stated order (an
\* update leaves out the fields it does not move, and moves by Remove, Add), the
\* goroutine makes them in that order, and when a command of sub-write k fails
\* the stores of the sub-writes before k are those of the whole event and the
\* stores of the sub-writes after k are those of before the event.
C10_FixedOrderNoRollback ==
    [][Handling =>
         LET value == Handled(1)
             order == SubWriteOrder(value.op)
             all == DispatchCalls(Unmarshal(value))
             fields == FieldsOf(all)
             k == PlaceIn(order, ingest[1].calls[1].w.Index.FieldName)
             start == StartOf(ingest[1])
             full == ConsumeMessage(start, value).c
         IN /\ value.op \in {"r", "c", "d"} => fields = order
            /\ \A i \in 1..Len(all) : \E p \in 1..Len(order) : order[p] = fields[i]
            /\ \A i, j \in 1..Len(all) :
                  i < j => PlaceIn(order, fields[i]) <= PlaceIn(order, fields[j])
            /\ ingest[1].calls # <<>>
            /\ ingest[1].calls = SubSeq(all, Len(all) - Len(ingest[1].calls) + 1, Len(all))
            /\ ingest[1]'.pc = "Returned" =>
                  /\ \A j \in 1..(k - 1) :
                        SubWriteState(order[j], bm', zs', hm', fv')
                          = SubWriteState(order[j], full.bm, full.zs, full.hm, full.fv)
                  /\ \A j \in (k + 1)..Len(order) :
                        SubWriteState(order[j], bm', zs', hm', fv')
                          = SubWriteState(order[j], start.bm, start.zs, start.hm, start.fv)]_vars

\* An insert failed in its third sub-write: the id is in the universe and
\* order_status postings and in no product_id posting, bucket or forward entry.
C10_Witness ==
    /\ ingest[1].pc = "Returned"
    /\ ingest[1].err # ""
    /\ ingest[1].offset > 1
    /\ Handled(1).op \in {"r", "c"}
    /\ LET row == Handled(1).after.val
       IN /\ row.id \in Posting(AllIndex, Sprint(0))
          /\ row.id \in Posting(OrderStatusIndex, Sprint(row.order_status))
          /\ row.id \notin Posting(ProductIdIndex, Sprint(row.product_id))
          /\ BucketsOf(row.id) = {}
          /\ ~HasForward(row.id)

(***************************************************************************)
(* C11.  For every split threshold T >= 2, after every completed Add,       *)
(* Remove or Move of the create_time index writer, in any sequence, every   *)
(* stored bucket holds at most T ids; and inserting the ids 1..n with       *)
(* create_time = id into an empty index leaves at least ceil(n/T) buckets,  *)
(* each of at most T ids.                                                   *)
(***************************************************************************)
RECURSIVE InsertAscending(_, _, _)
\* The context after w has added the ids 1..n in order, id i with value i.
InsertAscending(c, w, n) ==
    IF n = 0 THEN c
    ELSE SparseU64IndexWriter_Add(InsertAscending(c, w, n - 1), w, n, n).c

\* The ids a context stores under a member of the create_time index.
BucketIdsIn(c, member) == parseBitmap(HGet(c.hm[CtHashKey], member))

\* C11: every stored bucket holds at most SplitThreshold ids, and the ascending
\* insert of n ids leaves at least ceil(n/T) buckets of at most T ids.
C11_BucketSizeBounded ==
    FullyApplied =>
    /\ \A m \in BucketMembers : Cardinality(BucketIds(m)) <= sparse.writer.SplitThreshold
    /\ \A n \in 0..MaxAscending :
          \E c \in {InsertAscending(EmptyRedis, sparse.writer, n)} :
             /\ Cardinality(c.zs[CtZsetKey]) * sparse.writer.SplitThreshold >= n
             /\ c.zs[CtZsetKey] = DOMAIN c.hm[CtHashKey]
             /\ \A m \in c.zs[CtZsetKey] :
                   Cardinality(BucketIdsIn(c, m)) <= sparse.writer.SplitThreshold

\* A full bucket was split: three ids are indexed in two buckets, one of them
\* full again, and the ascending insert of MaxAscending ids has made at least
\* three buckets.
C11_Witness ==
    /\ FullyApplied
    /\ Cardinality({id \in SparseIds : sparse.at[id].some}) = 3
    /\ Cardinality(BucketMembers) = 2
    /\ \E m \in BucketMembers : Cardinality(BucketIds(m)) = sparse.writer.SplitThreshold
    /\ Cardinality(InsertAscending(EmptyRedis, sparse.writer, MaxAscending).zs[CtZsetKey]) >= 3

(***************************************************************************)
(* C12.  No stored bitmap is empty: after every completed RedisBmStore.Set  *)
(* and RedisSortKeyBitmapStore.MSet (every fully applied event), every term *)
(* posting, the universe posting and every create_time bucket present in    *)
(* Redis holds at least one id, and the universe hash has no field (Redis   *)
(* drops the key) once the last live row is deleted.                        *)
(***************************************************************************)
C12_NoEmptyBitmap ==
    /\ \A k \in BmHashKeys : \A f \in DOMAIN bm[k] : parseBitmap(bm[k][f]) # {}
    /\ (\A w \in Workers : ingest[w].pc # "MSet") => \A m \in BucketMembers : BucketIds(m) # {}
    /\ (FullyApplied /\ Live = {}) => DOMAIN bm[BmPrefix \o GetIndexKey(AllIndex)] = {}

\* The last event deleted the only live row: every posting hash has lost its
\* last field and no bucket is left.
C12_Witness ==
    /\ FullyApplied
    /\ Len(log) >= 2
    /\ log[Len(log)].op = "d"
    /\ Live = {}
    /\ \A k \in BmHashKeys : DOMAIN bm[k] = {}
    /\ BucketMembers = {}


(***************************************************************************)
(* C13.  The query path never changes the index: List and Scan leave every  *)
(* Redis key as it was, and Scan leaves the bitmap its caller passed as it  *)
(* was (the intersection is computed into the bucket just decoded).         *)
(***************************************************************************)
\* C13: an unfiltered List leaves Redis as it was in every state, between two
\* commands of a handler included; every request and every scan does after
\* fully applied events.
C13_QueryLeavesIndex ==
    /\ \E resp \in {List(Redis(NoFault), Request(None, None, None, None))} :
          KV(resp.c) = kvvars
    /\ FullyApplied =>
       /\ \A r \in Requests({None, Some(0), Some(1), Some(MaxLimit)}) :
             \E resp \in {List(Redis(NoFault), r)} :
                /\ resp.err = ""
                /\ KV(resp.c) = kvvars
                /\ resp.c.calls = <<>>
       /\ \A baseBm \in SUBSET Ids : \A reverse \in BOOLEAN :
             \E sc \in {SparseU64IndexReader_Scan(Redis(NoFault), CreateTimeIndexReader,
                                                  baseBm, reverse, None)} :
                /\ sc.err = ""
                /\ KV(sc.c) = kvvars
                /\ sc.v.baseBm = baseBm

\* Two buckets hold live rows: a scan of all live ids is handed two batches,
\* neither of them the whole of the caller's bitmap, and List returns rows.
C13_Witness ==
    /\ Cardinality(Live) >= 2
    /\ Len(SparseU64IndexReader_Scan(Redis(NoFault), CreateTimeIndexReader,
                                     Live, TRUE, None).v.batches) >= 2
    /\ Len(List(Redis(NoFault), Request(None, None, None, None)).v.IDs) >= 2


(***************************************************************************)
(* C14.  When the limit is 0 or the filtered accumulator is empty (an empty *)
(* index included), List returns the total and no ids, without error and    *)
(* without reading a create_time bucket or a forward value: the only Redis  *)
(* commands it issues are the reads of the universe posting and of one      *)
(* posting per filter.                                                      *)
(***************************************************************************)
\* The term postings List reads for a request: the universe and one per filter.
TermReads(r) ==
    1 + (IF r.OrderStatusEq.some THEN 1 ELSE 0) + (IF r.ProductIDEq.some THEN 1 ELSE 0)
      + (IF r.ProviderIDFilter.some THEN 1 ELSE 0)

\* List in a Redis where only the reads of the term postings succeed and any
\* further command fails.
ListTermReadsOnly(r) == List(Redis(TermReads(r)), r)

\* C14: with limit 0 or an empty accumulator List answers (total, no ids) from
\* the term postings alone.
C14_NoScanWhenNothingToReturn ==
    FullyApplied =>
    \A r \in Requests({None, Some(0), Some(1)}) :
       \E acc \in {Accumulate(Redis(NoFault), r)} :
          (r.Limit = Some(0) \/ acc.v = {}) =>
             \E resp \in {ListTermReadsOnly(r)} :
                /\ resp.err = ""
                /\ resp.v = Response(<<>>, Cardinality(acc.v))
                /\ resp.c.fuel = 0

\* Rows of both statuses are live: a filter on a provider no row has selects
\* nothing, the unfiltered query with limit 0 counts every row, and both are
\* answered from the term postings alone, while limit 1 goes on to the scan.
C14_Witness ==
    /\ FullyApplied
    /\ Cardinality(Live) = MaxId
    /\ \A id \in Live : db[id].val.provider_id # Some(6)
    /\ ListTermReadsOnly(Request(None, None, Some(NullableValueFilter(FilterModeEq, 6)), None))
          = Ok([Redis(0) EXCEPT !.fuel = 0], Response(<<>>, 0))
    /\ ListTermReadsOnly(Request(None, None, None, Some(0))).v = Response(<<>>, MaxId)
    /\ ListTermReadsOnly(Request(None, None, None, Some(1))).err # ""


(***************************************************************************)
(* C15.  A message whose op is none of r, c, u, d makes ConsumeClaim return *)
(* an error: no Redis key is written, no writer is entered and the message  *)
(* is not marked.                                                           *)
(***************************************************************************)
C15_UnknownOpReturnsError ==
    [][(ingest[1]'.offset = ingest[1].offset + 1
          /\ ~Handled(1)'.null
          /\ Handled(1)'.op \notin {"r", "c", "u", "d"}) =>
          /\ kvvars' = kvvars
          /\ ingest[1]'.pc = "Returned"
          /\ ingest[1]'.err = "Unknown op"
          /\ ingest[1]'.marked = ingest[1].marked
          /\ ingest[1]'.calls = <<>>]_vars

\* An insert was applied and marked, then a truncate event arrived:
\* ConsumeClaim has returned the error with offset 2 unmarked and the index
\* holding what the insert wrote.
C15_Witness ==
    /\ Len(ingest[1].claim) = 2
    /\ ingest[1].claim[1].op \in {"r", "c"}
    /\ ingest[1].claim[2].op = "t"
    /\ ingest[1].pc = "Returned"
    /\ ingest[1].err = "Unknown op"
    /\ ingest[1].offset = 3
    /\ ingest[1].marked = 1
    /\ log = ingest[1].claim
    /\ kvvars = KV(ConsumeMessage(EmptyRedis, ingest[1].claim[1]).c)
    /\ BucketMembers # {}


(***************************************************************************)
(* C16.  An Add of the create_time index writer that takes the split path   *)
(* (its floor bucket holds SplitThreshold ids) loses no id: every id of the *)
(* floor bucket before the Add, and the id added, is stored in exactly one  *)
(* bucket after it, also when both new buckets get the same sort key.       *)
(***************************************************************************)
\* The floor bucket Add would find for a value in the current state.
FloorOf(t) == getFloorSortedBm(Redis(NoFault), MakeIndexKey(CreateTimeIndex), t).v

\* Add(t, id) takes the split path in the current state.
SplitsOn(t) ==
    /\ FloorOf(t).found
    /\ Cardinality(FloorOf(t).skbm.Bitmap) >= sparse.writer.SplitThreshold

\* C16: after an Add on the split path every id of the floor bucket and the new
\* id are each in exactly one bucket.
C16_SplitLosesNoId ==
    FullyApplied =>
       \A id \in {i \in SparseIds : ~sparse.at[i].some} : \A t \in SparseTimes :
          SplitsOn(t) =>
             \E r \in {SparseU64IndexWriter_Add(Redis(NoFault), sparse.writer, t, id)} :
                /\ r.err = ""
                /\ \A x \in FloorOf(t).skbm.Bitmap \cup {id} :
                      Cardinality({m \in r.c.zs[CtZsetKey] \cup DOMAIN r.c.hm[CtHashKey] :
                                      x \in BucketIdsIn(r.c, m)}) = 1


(***************************************************************************)
(* C17.  For any stored buckets, more of them than one page of the scan and *)
(* sort keys 0, 2^64-1 and their neighbours included, Scan with a callback  *)
(* that always returns true visits every bucket exactly once in sort-key    *)
(* order (ascending, or descending when reverse) and delivers every id of   *)
(* baseBitmap that some bucket stores: the batches are the non-empty        *)
(* intersections of the buckets with baseBitmap, in that order.             *)
(***************************************************************************)
RECURSIVE KeysAscending(_)
\* The sort keys of a set in ascending order.
KeysAscending(keys) ==
    IF keys = {} THEN <<>>
    ELSE LET k == CHOOSE x \in keys : \A y \in keys : x <= y
         IN <<k>> \o KeysAscending(keys \ {k})

\* The sort keys of the stored buckets in the order of a scan.
ScanOrder(reverse) ==
    LET asc == KeysAscending({hexToU64(m) : m \in BucketMembers})
    IN IF reverse THEN Reverse(asc) ELSE asc

\* What a complete scan hands to its callback: per bucket in scan order the
\* ids it shares with baseBm, the buckets that share none left out.
ExpectedBatches(baseBm, reverse) ==
    LET order == ScanOrder(reverse)
        shared == [i \in 1..Len(order) |-> BucketIds(u64ToHex(order[i])) \cap baseBm]
        some(ids) == ids # {}
    IN SelectSeq(shared, some)

\* The ids of the batches a scan handed to its callback.
BatchIds(batches) == [i \in 1..Len(batches) |-> {batches[i][j].Id : j \in 1..Len(batches[i])}]

\* C17: the batches of a complete scan are the buckets' shares of baseBm, every
\* bucket once, in sort-key order.
C17_ScanVisitsEveryBucket ==
    FullyApplied =>
    \A baseBm \in SUBSET SparseIds : \A reverse \in BOOLEAN :
       \E sc \in {SparseU64IndexReader_Scan(Redis(NoFault), CreateTimeIndexReader,
                                            baseBm, reverse, None)} :
          /\ sc.err = ""
          /\ BatchIds(sc.v.batches) = ExpectedBatches(baseBm, reverse)


(***************************************************************************)
(* C18.  In every state reached by completed writer operations, the batches *)
(* Scan hands to its callback, one after the other, are non-increasing in   *)
(* forward value when reverse and non-decreasing otherwise, and inside a    *)
(* batch ids of equal forward value are ordered by id, descending when      *)
(* reverse and ascending otherwise.                                         *)
(***************************************************************************)
RECURSIVE Flatten(_)
\* The batches of a scan one after the other.
Flatten(batches) ==
    IF Len(batches) = 0 THEN <<>> ELSE batches[1] \o Flatten(Tail(batches))

\* a may come before b in a scan of the given direction.
InScanOrder(a, b, reverse) ==
    IF reverse THEN a.SortKey >= b.SortKey ELSE a.SortKey <= b.SortKey

\* a comes before b in a batch of ids of one forward value.
InIdOrder(a, b, reverse) == IF reverse THEN a.Id > b.Id ELSE a.Id < b.Id

\* C18: the batches of a scan are ordered by forward value across batches and
\* by id among equal values inside a batch.
C18_ScanOrderedByForwardValue ==
    FullyApplied =>
    \A baseBm \in SUBSET SparseIds : \A reverse \in BOOLEAN :
       \E sc \in {SparseU64IndexReader_Scan(Redis(NoFault), CreateTimeIndexReader,
                                            baseBm, reverse, None)} :
          /\ sc.err = ""
          /\ \E flat \in {Flatten(sc.v.batches)} :
                \A i, j \in 1..Len(flat) : i < j => InScanOrder(flat[i], flat[j], reverse)
          /\ \A b \in 1..Len(sc.v.batches) :
                \A i, j \in 1..Len(sc.v.batches[b]) :
                   (i < j /\ sc.v.batches[b][i].SortKey = sc.v.batches[b][j].SortKey)
                      => InIdOrder(sc.v.batches[b][i], sc.v.batches[b][j], reverse)


(***************************************************************************)
(* C19.  TermIndexWriter.Move(before, after, id) does nothing (no Redis     *)
(* write, the id never out of its posting) whenever before and after are    *)
(* the same field value, for every term field, provider_id with equal       *)
(* non-null values included; otherwise it is Remove(before), then           *)
(* Add(after).                                                              *)
(***************************************************************************)
TermFields == {"order_status", "product_id", "provider_id"}

\* The value of a term field in a row image of an event.
FieldValue(row, field) ==
    IF field = "order_status" THEN Some(row.order_status)
    ELSE IF field = "product_id" THEN Some(row.product_id)
    ELSE row.provider_id

\* The writer methods called for a field, in order.
FieldCalls(calls, field) ==
    LET of(x) == x.w.Index.FieldName = field
        sel == SelectSeq(calls, of)
    IN [i \in 1..Len(sel) |-> sel[i].op]

\* The posting hash of a term field.
FieldHash(b, field) == b[BmPrefix \o GetIndexKey([TableName |-> "orders", FieldName |-> field])]

\* C19: a term Move between equal field values calls neither Remove nor Add and
\* no step of the handler changes the field's postings; between different
\* values it is Remove, then Add.
C19_MoveNoOpOnEqualValue ==
    [][/\ (ingest[1]'.offset # ingest[1].offset /\ Handled(1)'.op = "u") =>
             \A field \in TermFields :
                \E fc \in {FieldCalls(ingest[1]'.calls, field)} :
                   IF FieldValue(Handled(1)'.before.val, field)
                        = FieldValue(Handled(1)'.after.val, field)
                   THEN fc = <<>>
                   ELSE fc = <<"Remove", "Add">>
       /\ (Handling /\ Handled(1).op = "u") =>
             \A field \in TermFields :
                FieldValue(Handled(1).before.val, field)
                  = FieldValue(Handled(1).after.val, field)
                     => FieldHash(bm', field) = FieldHash(bm, field)]_vars


(***************************************************************************)
(* C20.  After every completed operation of the create_time index writer,   *)
(* in any sequence, every id stored in the bucket of sort key k has a       *)
(* forward value of at least k: an id lives in the floor bucket of its own  *)
(* value.                                                                   *)
(***************************************************************************)
C20_ForwardValueAtLeastKey ==
    FullyApplied =>
    \A m \in BucketMembers : \A id \in BucketIds(m) :
       HasForward(id) => Forward(id) >= hexToU64(m)


(***************************************************************************)
(* C21.  For a limit L >= 1 the scan of List collects at most L ids, and as *)
(* soon as L ids are collected, in the middle of a batch or not, the        *)
(* callback returns false and Scan reads no further page of buckets and no  *)
(* further forward values and delivers no further batch: what the limited   *)
(* scan did is the beginning of what the unlimited scan does, cut right     *)
(* after the batch that brought the L-th id.                                *)
(***************************************************************************)
\* The number of ids in the first n batches.
RECURSIVE IdsInBatches(_, _)
IdsInBatches(batches, n) ==
    IF n = 0 THEN 0 ELSE IdsInBatches(batches, n - 1) + Len(batches[n])

\* s is the beginning of t.
IsPrefix(s, t) == Len(s) <= Len(t) /\ s = SubSeq(t, 1, Len(s))

\* C21: a limited scan is the unlimited one cut right after the batch with the
\* L-th id.
C21_ScanStopsAtLimit ==
    FullyApplied =>
    \A baseBm \in SUBSET SparseIds : \A reverse \in BOOLEAN : \A L \in 1..MaxLimit :
       \E lim \in {SparseU64IndexReader_Scan(Redis(NoFault), CreateTimeIndexReader,
                                             baseBm, reverse, Some(L))} :
       \E full \in {SparseU64IndexReader_Scan(Redis(NoFault), CreateTimeIndexReader,
                                              baseBm, reverse, None)} :
          /\ lim.err = ""
          /\ Len(lim.v.resultIds) <= L
          /\ lim.v.resultIds = Take(full.v.resultIds, L)
          /\ IsPrefix(lim.v.events, full.v.events)
          /\ IsPrefix(lim.v.batches, full.v.batches)
          /\ IF Len(full.v.resultIds) < L
             THEN lim.v.events = full.v.events /\ lim.v.more
             ELSE /\ ~lim.v.more
                  /\ lim.v.events[Len(lim.v.events)] = "batch"
                  /\ IdsInBatches(lim.v.batches, Len(lim.v.batches) - 1) < L
                  /\ IdsInBatches(lim.v.batches, Len(lim.v.batches)) >= L

\* The newest bucket holds two ids and an older bucket a third: with limit 1
\* the scan stops inside the first batch, after one page and one read of
\* forward values, where the unlimited scan goes on to a second page.
C21_Witness ==
    FullyApplied /\
    \E lim \in {SparseU64IndexReader_Scan(Redis(NoFault), CreateTimeIndexReader,
                                          SparseIds, TRUE, Some(1))} :
    \E full \in {SparseU64IndexReader_Scan(Redis(NoFault), CreateTimeIndexReader,
                                           SparseIds, TRUE, None)} :
       /\ full.v.pages >= 2
       /\ Len(full.v.batches) >= 2
       /\ Len(full.v.batches[1]) = 2
       /\ lim.v.events = <<"page", "fv", "batch">>
       /\ Len(lim.v.resultIds) = 1
       /\ ~lim.v.more


(***************************************************************************)
(* C22.  After every completed RedisSortKeyBitmapStore.MSet the members of  *)
(* the bucket sorted set are the fields of the bucket hash: a bucket given  *)
(* only as empty is in neither, a bucket given non-empty is in both, also   *)
(* when one call names a sort key twice (empty and non-empty, or non-empty  *)
(* twice).                                                                  *)
(***************************************************************************)
\* The arguments MSet is given: one or two buckets, of the same or of different
\* sort keys, empty or not.
MSetBuckets == {SortKeyBitmap(k, b) : k \in {0, 1, U64Max}, b \in {{}, {1}, {2, 3}}}
MSetArguments == {<<x>> : x \in MSetBuckets} \cup (MSetBuckets \X MSetBuckets)

\* The sort keys an MSet argument names with a non-empty bitmap, and those it
\* names with empty bitmaps only.
KeysSet(skbms) == {skbms[i].SortKey : i \in {j \in 1..Len(skbms) : skbms[j].Bitmap # {}}}
KeysDeleted(skbms) == {skbms[i].SortKey : i \in 1..Len(skbms)} \ KeysSet(skbms)

\* C22: the sorted set and the hash name the same buckets in every state, and
\* after any MSet on it.
C22_ZsetMatchesHash ==
    FullyApplied =>
    /\ zs[CtZsetKey] = DOMAIN hm[CtHashKey]
    /\ \A skbms \in MSetArguments :
          \E r \in {RedisSortKeyBitmapStore_MSet(Redis(NoFault),
                                                 MakeIndexKey(CreateTimeIndex), skbms)} :
             /\ r.err = ""
             /\ r.c.zs[CtZsetKey] = DOMAIN r.c.hm[CtHashKey]
             /\ \A k \in KeysSet(skbms) :
                   /\ u64ToHex(k) \in r.c.zs[CtZsetKey]
                   /\ BucketIdsIn(r.c, u64ToHex(k)) # {}
             /\ \A k \in KeysDeleted(skbms) : u64ToHex(k) \notin r.c.zs[CtZsetKey]
             /\ \A m \in (zs[CtZsetKey] \cup r.c.zs[CtZsetKey])
                          \ {u64ToHex(skbms[i].SortKey) : i \in 1..Len(skbms)} :
                   /\ m \in zs[CtZsetKey] \cap r.c.zs[CtZsetKey]
                   /\ BucketIdsIn(r.c, m) = BucketIds(m)

\* Bucket 0 is stored with two ids next to another bucket: an MSet that names
\* sort key 0 empty and then non-empty leaves it in both structures with the
\* new ids, and so does one that names it non-empty twice (the last wins).
C22_Witness ==
    /\ FullyApplied
    /\ Cardinality(BucketIds(u64ToHex(0))) = 2
    /\ Cardinality(BucketMembers) >= 2
    /\ \E r \in {RedisSortKeyBitmapStore_MSet(Redis(NoFault), MakeIndexKey(CreateTimeIndex),
                      <<SortKeyBitmap(0, {}), SortKeyBitmap(0, {1})>>)} :
          u64ToHex(0) \in r.c.zs[CtZsetKey] /\ BucketIdsIn(r.c, u64ToHex(0)) = {1}
    /\ \E r \in {RedisSortKeyBitmapStore_MSet(Redis(NoFault), MakeIndexKey(CreateTimeIndex),
                      <<SortKeyBitmap(0, {1}), SortKeyBitmap(0, {2, 3})>>)} :
          u64ToHex(0) \in r.c.zs[CtZsetKey] /\ BucketIdsIn(r.c, u64ToHex(0)) = {2, 3}


(***************************************************************************)
(* C23.  Remove(v, id) of the create_time index writer when no bucket has a *)
(* sort key <= v is not fatal: it writes no bucket, still deletes the       *)
(* forward entry of id and returns no error.  And a second Remove(v, id)    *)
(* right after a first Remove(v, id) changes nothing in the buckets or in   *)
(* the forward map.                                                         *)
(***************************************************************************)
C23_RemoveWithoutFloorAndTwice ==
    FullyApplied =>
    /\ \A id \in SparseIds : \A v \in SparseTimes :
          ~FloorOf(v).found =>
             \E r \in {SparseU64IndexWriter_Remove(Redis(NoFault), sparse.writer, v, id)} :
                /\ r.err = ""
                /\ r.c.zs = zs
                /\ r.c.hm = hm
                /\ r.c.fv[CtFvKey] = HDel(fv[CtFvKey], {Sprint(id)})
    /\ \A id \in {i \in SparseIds : sparse.at[i].some} :
          \E once \in {SparseU64IndexWriter_Remove(Redis(NoFault), sparse.writer,
                                                   sparse.at[id].val, id)} :
          \E twice \in {SparseU64IndexWriter_Remove(once.c, sparse.writer,
                                                    sparse.at[id].val, id)} :
             /\ once.err = ""
             /\ twice.err = ""
             /\ KV(twice.c) = KV(once.c)


(***************************************************************************)
(* C24.  Add and Remove of a term index writer are idempotent per id:       *)
(* Add(f, v, id) applied twice leaves the same stored posting as applied    *)
(* once, and so does Remove, also on a posting that is missing, which stays *)
(* missing, with no error.                                                  *)
(***************************************************************************)
\* The writer and field value of every Add or Remove the handlers can make,
\* and of values no row has.
TermCalls ==
    {<<AllIndexWriter, 0>>}
    \cup {<<OrderStatusIndexWriter, v>> : v \in OrderStatuses \cup {9}}
    \cup {<<ProductIdIndexWriter, v>> : v \in ProductIds \cup {9}}
    \cup {<<ProviderIdIndexWriter, pv>> : pv \in {NilPtr, Ptr(1, 5), Ptr(2, 6)}}

StoredPostings(c, w) == c.bm[BmPrefix \o GetIndexKey(w.Index)]

\* C24: Add twice = Add once, Remove twice = Remove once, Remove of a missing
\* posting leaves it missing.
C24_TermAddRemoveIdempotent ==
    FullyApplied =>
    \A call \in TermCalls : \A id \in Ids :
       /\ \E once \in {TermIndexWriter_Add(Redis(NoFault), call[1], call[2], id)} :
          \E twice \in {TermIndexWriter_Add(once.c, call[1], call[2], id)} :
             /\ once.err = "" /\ twice.err = ""
             /\ id \in parseBitmap(HGet(StoredPostings(once.c, call[1]),
                                        MakeValueKey(call[1].T, call[2])))
             /\ KV(twice.c) = KV(once.c)
       /\ \E once \in {TermIndexWriter_Remove(Redis(NoFault), call[1], call[2], id)} :
          \E twice \in {TermIndexWriter_Remove(once.c, call[1], call[2], id)} :
             /\ once.err = "" /\ twice.err = ""
             /\ id \notin parseBitmap(HGet(StoredPostings(once.c, call[1]),
                                           MakeValueKey(call[1].T, call[2])))
             /\ KV(twice.c) = KV(once.c)
             /\ MakeValueKey(call[1].T, call[2]) \notin DOMAIN StoredPostings(Redis(NoFault), call[1])
                  => KV(once.c) = <<bm, zs, hm, fv>>

\* Rows were added and deleted: a posting holds two ids, another holds one (its
\* Remove empties it), and a value some call names has no posting.
C24_Witness ==
    /\ FullyApplied
    /\ Cardinality(Posting(AllIndex, Sprint(0))) = 2
    /\ \E v \in OrderStatuses : Cardinality(Posting(OrderStatusIndex, Sprint(v))) = 1
    /\ \E v \in ProductIds :
          Sprint(v) \notin DOMAIN bm[BmPrefix \o GetIndexKey(ProductIdIndex)]
    /\ Live # Ids


(***************************************************************************)
(* C25.  Within Add of the create_time index writer the forward value of    *)
(* the id is written before any bucket is persisted, and when the forward   *)
(* write fails no bucket is written.  Within Remove the id is taken out of  *)
(* its bucket before its forward entry is deleted.                          *)
(* A call is cut after its first n Redis commands, for every n up to the    *)
(* number the whole call issues: the stores then are the ones another       *)
(* client sees between the n-th command and the next.                       *)
(***************************************************************************)
\* The number of Redis commands a call issued.
Commands(r) == MaxFault - r.c.fuel

AddCommands(v, id) ==
    Commands(SparseU64IndexWriter_Add(Redis(MaxFault), sparse.writer, v, id))

RemoveCommands(v, id) ==
    Commands(SparseU64IndexWriter_Remove(Redis(MaxFault), sparse.writer, v, id))

\* C25: a bucket differs from before Add only once the forward value is
\* stored; the forward entry differs from before Remove only once the floor
\* bucket is without the id.
C25_ForwardWriteOrder ==
    FullyApplied =>
    \A id \in SparseIds : \A v \in SparseTimes :
       /\ \A n \in 0..AddCommands(v, id) :
             \E r \in {SparseU64IndexWriter_Add(Redis(n), sparse.writer, v, id)} :
                /\ (r.err = "") = (n = AddCommands(v, id))
                /\ (r.c.zs # zs \/ r.c.hm # hm)
                      => HGet(r.c.fv[CtFvKey], Sprint(id)) = Sprint(v)
                /\ r.err = "HSet failed" => /\ r.c.zs = zs
                                            /\ r.c.hm = hm
                                            /\ r.c.fv = fv
       /\ \A n \in 0..RemoveCommands(v, id) :
             \E r \in {SparseU64IndexWriter_Remove(Redis(n), sparse.writer, v, id)} :
                /\ (r.err = "") = (n = RemoveCommands(v, id))
                /\ r.c.fv # fv =>
                      /\ Sprint(id) \notin DOMAIN r.c.fv[CtFvKey]
                      /\ FloorOf(v).found =>
                            id \notin BucketIdsIn(r.c, u64ToHex(FloorOf(v).skbm.SortKey))

\* A full bucket, so that an Add splits it and writes two buckets, and an id
\* alone in the floor bucket of its value, so that its Remove deletes a bucket.
C25_Witness ==
    /\ FullyApplied
    /\ \E v \in SparseTimes : SplitsOn(v)
    /\ \E id \in SparseIds :
          /\ sparse.at[id].some
          /\ FloorOf(sparse.at[id].val).found
          /\ FloorOf(sparse.at[id].val).skbm.Bitmap = {id}


(***************************************************************************)
(* C26.  In every state reached by fully applying well-formed events         *)
(* (inserts, create_time updates, deletes) List never returns the same row  *)
(* id twice in IDs, so with no limit the length of IDs never exceeds Total. *)
(***************************************************************************)
NoDuplicates(ids) == \A i, j \in 1..Len(ids) : ids[i] = ids[j] => i = j

\* C26: IDs of List holds no id twice, and no more than Total ids without a limit.
C26_ListReturnsNoIdTwice ==
    FullyApplied =>
       \A r \in Requests({None} \cup {Some(l) : l \in 1..MaxLimit}) :
          \E resp \in {List(Redis(NoFault), r)} :
             /\ resp.err = ""
             /\ NoDuplicates(resp.v.IDs)
             /\ ~r.Limit.some => Len(resp.v.IDs) <= resp.v.Total


(***************************************************************************)
(* C27.  After Add of the create_time index writer takes the split path on  *)
(* the floor bucket stored under K, the bitmap under K no longer holds the  *)
(* ids moved to the upper-half bucket: when the smallest forward value of   *)
(* the bucket is above K, so that neither new sort key equals K, the entry  *)
(* under K is removed or rewritten, not left with its pre-split contents.   *)
(***************************************************************************)
\* The ids of the floor bucket of t ordered as the split orders them.
FloorSortedIds(t) ==
    QuerySortedIds(Redis(NoFault), MakeIndexKey(CreateTimeIndex), FloorOf(t).skbm.Bitmap).v

\* The ids the split of the floor bucket of t puts into the upper half.
UpperHalf(t) ==
    {FloorSortedIds(t)[i].Id :
        i \in ((Len(FloorSortedIds(t)) \div 2) + 1)..Len(FloorSortedIds(t))}

\* C27: an Add that splits a floor bucket whose smallest forward value is above
\* its key K leaves under K none of the upper half's ids and not the old bitmap.
C27_SplitRewritesFloorKey ==
    FullyApplied =>
    \A id \in {i \in SparseIds : ~sparse.at[i].some} : \A t \in SparseTimes :
       (SplitsOn(t) /\ FloorSortedIds(t)[1].Score > FloorOf(t).skbm.SortKey) =>
          \E r \in {SparseU64IndexWriter_Add(Redis(NoFault), sparse.writer, t, id)} :
             /\ r.err = ""
             /\ BucketIdsIn(r.c, u64ToHex(FloorOf(t).skbm.SortKey)) \cap UpperHalf(t) = {}
             /\ BucketIdsIn(r.c, u64ToHex(FloorOf(t).skbm.SortKey)) # FloorOf(t).skbm.Bitmap

(***************************************************************************)
(* List in the query service, one Redis command at a time.                  *)
(***************************************************************************)
\* A List between two Redis commands: its request, the accumulator, the next
\* filter to apply, the cursor of the scan, the local its next command uses (the
\* sort keys of a page, then the buckets of the page not yet handled), the ids
\* the callback collected, and what it returned.  Kept beside them: the sort
\* keys whose batch the callback was given, the sort keys read without a
\* payload (and whether the sorted set still listed them then), and whether a
\* page was read while the hash held a field the sorted set did not list.
QueryOf(request) ==
    [pc |-> "List", request |-> request, accBm |-> {}, stage |-> 1, start |-> U64Max,
     loc |-> <<>>, resultIds |-> <<>>, delivered |-> {}, nil |-> {}, unlisted |-> FALSE,
     err |-> "", resp |-> None]

\* The first of the filters stage..3 (order_status, product_id, provider_id)
\* the request sets, 4 when it sets none of them.
NextFilter(r, stage) ==
    IF stage <= 1 /\ r.OrderStatusEq.some THEN 1
    ELSE IF stage <= 2 /\ r.ProductIDEq.some THEN 2
    ELSE IF stage <= 3 /\ r.ProviderIDFilter.some THEN 3
    ELSE 4

\* One filter of List applied to the accumulator: one HGET.
ApplyFilter(c, r, stage, accBm) ==
    IF stage = 1 THEN AccOrderStatus(c, r, accBm)
    ELSE IF stage = 2 THEN AccProductId(c, r, accBm)
    ELSE AccProviderId(c, r, accBm)

\* List or Scan returns.
Finish(q, ids) ==
    [q EXCEPT !.pc = "Done", !.loc = <<>>,
              !.resp = Some(Response(ids, Cardinality(q.accBm)))]

Failed(q, err) == [q EXCEPT !.pc = "Done", !.loc = <<>>, !.err = err]

\* List after a posting was read: the next filter, or Total and the early
\* return, or the scan from the upper end.
AfterAcc(q) ==
    IF NextFilter(q.request, q.stage) <= 3 THEN [q EXCEPT !.pc = "Filter"]
    ELSE IF (q.request.Limit.some /\ q.request.Limit.val = 0) \/ Cardinality(q.accBm) = 0
         THEN Finish(q, <<>>)
         ELSE [q EXCEPT !.pc = "ZRange", !.start = U64Max]

\* The cursor of Scan after a page that ends on the sort key last.
NextStart(last, end, reverse) ==
    IF last = end THEN last
    ELSE IF ~reverse THEN (last + 1) % (U64Max + 1)
    ELSE (last + U64Max) % (U64Max + 1)

RECURSIVE NextBucket(_)
\* The inner loop of Scan up to its next command: buckets that share no id
\* with the accumulator are passed over; after the last bucket of the page the
\* outer loop goes on or ends.
NextBucket(q) ==
    IF Len(q.loc) = 0
    THEN IF q.start # 0 THEN [q EXCEPT !.pc = "ZRange"] ELSE Finish(q, q.resultIds)
    ELSE IF AndBucket(q.loc[1], q.accBm).Bitmap = {}
         THEN NextBucket([q EXCEPT !.loc = Tail(@),
                                   !.accBm = AndBucket(q.loc[1], q.accBm).baseBm])
         ELSE [q EXCEPT !.pc = "Fv"]

\* The sort keys among keys that have no field in the bucket hash of c.
NilKeys(c, keys) ==
    {[key |-> hexToU64(keys[i]), listed |-> keys[i] \in c.zs[CtZsetKey]] :
        i \in {j \in 1..Len(keys) : keys[j] \notin DOMAIN c.hm[CtHashKey]}}

\* List reads the universe posting: HGET.
ListUniverse ==
    /\ query.pc = "List"
    /\ \E g \in {TermIndexReader_Get(Redis(NoFault), AllIndexReader, 0)} :
          query' = AfterAcc([query EXCEPT !.accBm = g.v])
    /\ UNCHANGED <<db, bm, zs, hm, fv, log, sparse, ingest>>

\* List reads the posting of its next filter and cuts the accumulator: HGET.
ListFilter ==
    /\ query.pc = "Filter"
    /\ \E stage \in {NextFilter(query.request, query.stage)} :
       \E a \in {ApplyFilter(Redis(NoFault), query.request, stage, query.accBm)} :
          query' = AfterAcc([query EXCEPT !.accBm = a.v, !.stage = stage + 1])
    /\ UNCHANGED <<db, bm, zs, hm, fv, log, sparse, ingest>>

\* Scan reads the sort keys of its next page: ZRANGE.  No key ends the scan.
ScanPageKeys ==
    /\ query.pc = "ZRange"
    /\ \E r \in {ScanKeys(Redis(NoFault), MakeIndexKey(CreateTimeIndexReader.Index),
                          query.start, 0, TRUE, ScanPageSize)} :
          query' = IF Len(r.v) = 0
                   THEN Finish([query EXCEPT !.unlisted =
                                   @ \/ (DOMAIN hm[CtHashKey] \ zs[CtZsetKey] # {})],
                               query.resultIds)
                   ELSE [query EXCEPT !.pc = "HMGet", !.loc = r.v,
                                      !.unlisted =
                                         @ \/ (DOMAIN hm[CtHashKey] \ zs[CtZsetKey] # {})]
    /\ UNCHANGED <<db, bm, zs, hm, fv, log, sparse, ingest>>

\* Scan reads the bitmaps of the page's sort keys (HMGET), moves its cursor
\* and starts on the buckets.
ScanPageValues ==
    /\ query.pc = "HMGet"
    /\ \E r \in {ScanValues(Redis(NoFault),
                            makeHashKey(MakeIndexKey(CreateTimeIndexReader.Index)),
                            query.loc)} :
          query' = IF r.err # "" THEN Failed(query, r.err)
                   ELSE NextBucket([query EXCEPT
                            !.start = NextStart(r.v[Len(r.v)].SortKey, 0, TRUE),
                            !.loc = r.v,
                            !.nil = @ \cup NilKeys(Redis(NoFault), query.loc)])
    /\ UNCHANGED <<db, bm, zs, hm, fv, log, sparse, ingest>>

\* Scan reads the forward values of a bucket's ids (HMGET) and hands the batch
\* to the callback of List.
ScanBatch ==
    /\ query.pc = "Fv"
    /\ \E b \in {AndBucket(query.loc[1], query.accBm)} :
       \E r \in {QuerySortIds(Redis(NoFault), MakeIndexKey(CreateTimeIndexReader.Index),
                              b.Bitmap)} :
       \E p \in {ListProc(query.resultIds, Reverse(r.v), query.request.Limit)} :
          query' = IF ~p.more
                   THEN Finish([query EXCEPT !.accBm = b.baseBm,
                                             !.resultIds = p.resultIds,
                                             !.delivered = @ \cup {query.loc[1].SortKey}],
                               p.resultIds)
                   ELSE NextBucket([query EXCEPT !.accBm = b.baseBm,
                                                 !.resultIds = p.resultIds,
                                                 !.delivered = @ \cup {query.loc[1].SortKey},
                                                 !.loc = Tail(@)])
    /\ UNCHANGED <<db, bm, zs, hm, fv, log, sparse, ingest>>

\* The runs checked: the index as fully applied events left it, the claims of
\* the two goroutines, and the request of a List or None.
Scenario(prior, claim1, claim2, request) ==
    [prior |-> prior, claims |-> <<claim1, claim2>>, request |-> request]

InsertOf(row) == Message("c", None, Some(row))
DeleteOf(row) == Message("d", Some(row), None)
UpdateOf(before, after) == Message("u", Some(before), Some(after))

\* Two goroutines insert the rows 1 and 2, into an empty index or beside row 3.
TwoWorkers ==
    {Scenario(prior, <<InsertOf(Row(1, 1, 7, None, 0))>>, <<InsertOf(row)>>, None) :
        prior \in {<<>>, <<InsertOf(Row(3, 1, 7, None, 0))>>},
        row \in GenRows[2]}

\* The requests of the List that runs beside a goroutine.
ConcurrentRequests ==
    {Request(None, None, None, None), Request(Some(1), None, None, Some(1))}

\* One goroutine and a List: the row 1 is inserted, and then deleted or moved
\* to the upper end of create_time, with or without a row 3 stored there.
WorkerAndList ==
    {Scenario(prior, claim, <<>>, Some(request)) :
        prior \in {<<>>, <<InsertOf(Row(3, 1, 7, None, U64Max))>>},
        claim \in {<<InsertOf(Row(1, 1, 7, None, 0))>>,
                   <<InsertOf(Row(1, 1, 7, None, 0)), DeleteOf(Row(1, 1, 7, None, 0))>>,
                   <<InsertOf(Row(1, 1, 7, None, 0)),
                     UpdateOf(Row(1, 1, 7, None, 0), Row(1, 2, 7, Some(5), U64Max))>>},
        request \in ConcurrentRequests}

\* One goroutine and a List on an index that holds rows: row 3 is deleted and
\* row 1 inserted at the other end; row 2 is deleted from the index the events
\* insert 1, insert 2, update 1, insert 3 leave, in which the split kept the
\* old floor bucket.
WorkerAndListOnRows ==
    {Scenario(<<InsertOf(Row(3, 1, 7, None, U64Max))>>,
              <<DeleteOf(Row(3, 1, 7, None, U64Max)), InsertOf(Row(1, 1, 7, None, 0))>>,
              <<>>, Some(request)) : request \in ConcurrentRequests}
    \cup {Scenario(<<InsertOf(Row(1, 1, 7, None, 0)), InsertOf(Row(2, 1, 7, None, 1)),
                     UpdateOf(Row(1, 1, 7, None, 0), Row(1, 1, 7, None, 1)),
                     InsertOf(Row(3, 1, 7, None, 0))>>,
                   <<DeleteOf(Row(2, 1, 7, None, 1))>>,
                   <<>>, Some(request)) : request \in ConcurrentRequests}

Scenarios == TwoWorkers \cup WorkerAndList \cup WorkerAndListOnRows

InitConcurrent ==
    /\ db = [id \in Ids |-> None]
    /\ log = <<>>
    /\ sparse = SparseOf(CreateTimeIndexWriter)
    /\ \E s \in Scenarios :
          /\ \E c \in {Redeliver(EmptyRedis, s.prior)} :
                /\ bm = c.bm
                /\ zs = c.zs
                /\ hm = c.hm
                /\ fv = c.fv
          /\ ingest = [w \in Workers |-> ClaimOf(s.claims[w])]
          /\ query = IF s.request.some THEN QueryOf(s.request.val) ELSE NoQuery

NextConcurrent ==
    \/ ClaimReceive
    \/ ClaimTermGet
    \/ ClaimTermSet
    \/ ClaimFloorKeys
    \/ ClaimFloorValues
    \/ ClaimSortIds
    \/ ClaimForwardSet
    \/ ClaimMSetCommand
    \/ ClaimForwardRemove
    \/ ListUniverse
    \/ ListFilter
    \/ ScanPageKeys
    \/ ScanPageValues
    \/ ScanBatch

SpecConcurrent == InitConcurrent /\ [][NextConcurrent]_vars


(***************************************************************************)
(* C28.  When two ingest workers (ConsumeClaim for two partitions, sharing  *)
(* the writers and the KV store) concurrently apply insert events for       *)
(* different row ids, then after both have completed the universe posting   *)
(* and every term posting and bucket the two rows share contain both ids:   *)
(* no update is lost through an unsynchronised read-modify-write.           *)
(***************************************************************************)
\* The row the goroutine's one insert event carries.
Inserted(w) == ingest[w].claim[1].after.val

\* Both goroutines had one insert event each and have marked it.
BothInserted ==
    \A w \in Workers : /\ Len(ingest[w].claim) = 1
                       /\ ingest[w].claim[1].op = "c"
                       /\ ClaimDone(w)
                       /\ ingest[w].marked = 1

\* C28: after two concurrent inserts both ids are in the universe posting, in
\* the postings of the values the rows share and, each, in a bucket.
C28_NoLostUpdate ==
    BothInserted =>
       /\ {Inserted(1).id, Inserted(2).id} \subseteq Posting(AllIndex, Sprint(0))
       /\ Inserted(1).order_status = Inserted(2).order_status =>
             {Inserted(1).id, Inserted(2).id}
                \subseteq Posting(OrderStatusIndex, Sprint(Inserted(1).order_status))
       /\ Inserted(1).product_id = Inserted(2).product_id =>
             {Inserted(1).id, Inserted(2).id}
                \subseteq Posting(ProductIdIndex, Sprint(Inserted(1).product_id))
       /\ Inserted(1).provider_id = Inserted(2).provider_id =>
             {Inserted(1).id, Inserted(2).id}
                \subseteq Posting(ProviderIdIndex, ProviderValueKey(Inserted(1).provider_id))
       /\ ~HasForward(3) =>
             \A w \in Workers : \E m \in BucketMembers : Inserted(w).id \in BucketIds(m)


(***************************************************************************)
(* C29.  A List that runs concurrently with one ingest worker never fails   *)
(* because of a partially applied bucket write: a sort key in the sorted    *)
(* set whose payload is not yet in the hash (ZADD before HMSET) or is       *)
(* already deleted is decoded as an empty bucket and skipped, and a page    *)
(* read between ZREM and HDEL never reports an error.                       *)
(***************************************************************************)
\* C29: the List beside the worker has no error and gave the callback no batch
\* for a sort key it read without payload; a List run whole between any two
\* commands of the worker has no error either.
C29_ListToleratesPartialWrite ==
    /\ query.pc # "Off" =>
          /\ query.err = ""
          /\ \A n \in query.nil : n.key \notin query.delivered
          /\ query.pc = "Done" => query.resp.some
    /\ \A r \in ConcurrentRequests : List(Redis(NoFault), r).err = ""

\* A List has returned that read one sort key between the worker's ZADD and
\* HMSET and another after the worker's ZREM and HDEL.
C29_Witness ==
    /\ query.pc = "Done"
    /\ query.resp.some
    /\ \E n \in query.nil : n.listed
    /\ \E n \in query.nil : ~n.listed


(***************************************************************************)
(* C30.  Every id List returns is a member of the accumulator bitmap the    *)
(* same call computed (IDs is a subset of A), in every reachable index      *)
(* state, states with ids left in a wrong bucket and states seen while an   *)
(* event is partially applied included.                                     *)
(***************************************************************************)
IdsOf(seq) == {seq[i] : i \in 1..Len(seq)}

\* C30: the ids the List beside the worker has collected are in its
\* accumulator, its Total is the accumulator's size, and the same holds of a List
\* run whole on the stores between any two commands of the workers.
C30_IdsWithinAccumulator ==
    /\ query.pc # "Off" =>
          /\ IdsOf(query.resultIds) \subseteq query.accBm
          /\ (query.pc = "Done" /\ query.resp.some) =>
                /\ IdsOf(query.resp.val.IDs) \subseteq query.accBm
                /\ query.resp.val.Total = Cardinality(query.accBm)
    /\ \A r \in Requests({None}) :
          \E resp \in {List(Redis(NoFault), r)} :
             /\ resp.err = ""
             /\ IdsOf(resp.v.IDs) \subseteq Accumulate(Redis(NoFault), r).v

\* A List has returned ids while the worker is inside an event, and a bucket it
\* took a batch from holds an id that is not in its accumulator.
C30_Witness ==
    /\ query.pc = "Done"
    /\ query.resp.some
    /\ Len(query.resp.val.IDs) > 0
    /\ \E w \in Workers : ingest[w].pc # "Receive"
    /\ \E k \in query.delivered : ~(BucketIds(u64ToHex(k)) \subseteq query.accBm)


(***************************************************************************)
(* C31.  With no writer at work, Scan returns, in either direction and for  *)
(* every callback (one that always goes on, one that stops after L ids):    *)
(* the cursor start moves strictly forward, or strictly backward in a       *)
(* reverse scan, from one test of the loop condition to the next; a page is *)
(* read only while the cursor is not the end sentinel; every page but the   *)
(* last holds a bucket; the loop ends on an empty page, on the cursor       *)
(* reaching the end sentinel or on the callback returning false, and on     *)
(* nothing else; no bucket is read on two pages, so that the number of page *)
(* reads is at most the number of buckets plus one.                         *)
(***************************************************************************)
\* The callbacks of a scan: List's, without a limit and with each limit.
ScanLimits == {None} \cup {Some(l) : l \in 1..MaxLimit}

\* The sum of a sequence of numbers.
RECURSIVE SumOf(_)
SumOf(sizes) == IF Len(sizes) = 0 THEN 0 ELSE sizes[1] + SumOf(Tail(sizes))

\* The end sentinel of a scan.
EndOf(reverse) == IF reverse THEN 0 ELSE U64Max

\* A finished scan ended on an empty page.
EndedOnEmptyPage(st) == st.pages > 0 /\ st.sizes[st.pages] = 0

\* A finished scan ended on the loop condition: the cursor was the end sentinel.
EndedOnSentinel(st, reverse) ==
    /\ Len(st.cursors) = st.pages + 1
    /\ st.cursors[Len(st.cursors)] = EndOf(reverse)

\* C31: Scan terminates, its cursor moves strictly towards the end sentinel,
\* it ends for one of the three reasons and reads at most buckets + 1 pages.
C31_ScanTerminates ==
    FullyApplied =>
    \A baseBm \in SUBSET SparseIds : \A reverse \in BOOLEAN : \A limit \in ScanLimits :
       \E sc \in {SparseU64IndexReader_Scan(Redis(NoFault), CreateTimeIndexReader,
                                            baseBm, reverse, limit)} :
          /\ sc.err = ""
          /\ sc.v.pages = Len(sc.v.sizes)
          /\ Len(sc.v.cursors) \in {sc.v.pages, sc.v.pages + 1}
          /\ \A i \in 1..(Len(sc.v.cursors) - 1) :
                IF reverse THEN sc.v.cursors[i + 1] < sc.v.cursors[i]
                ELSE sc.v.cursors[i + 1] > sc.v.cursors[i]
          /\ \A i \in 1..sc.v.pages : sc.v.cursors[i] # EndOf(reverse)
          /\ \A i \in 1..(sc.v.pages - 1) : sc.v.sizes[i] > 0
          /\ \/ ~sc.v.more
             \/ EndedOnEmptyPage(sc.v)
             \/ EndedOnSentinel(sc.v, reverse)
          /\ SumOf(sc.v.sizes) <= Cardinality(zs[CtZsetKey])
          /\ sc.v.pages <= Cardinality(zs[CtZsetKey]) + 1

\* Three buckets are stored and the page holds two: the forward scan reads a
\* full page, a short page and an empty page and ends there; the reverse scan
\* ends on the cursor reaching the end sentinel; with a limit of one id the
\* scan ends on the callback after one page.
C31_Witness ==
    /\ FullyApplied
    /\ Cardinality(zs[CtZsetKey]) = 3
    /\ \E sc \in {SparseU64IndexReader_Scan(Redis(NoFault), CreateTimeIndexReader,
                                             SparseIds, FALSE, None)} :
          /\ sc.v.sizes = <<2, 1, 0>>
          /\ sc.v.more
          /\ ~EndedOnSentinel(sc.v, FALSE)
    /\ \E sc \in {SparseU64IndexReader_Scan(Redis(NoFault), CreateTimeIndexReader,
                                             SparseIds, TRUE, None)} :
          /\ sc.v.more
          /\ ~EndedOnEmptyPage(sc.v)
          /\ EndedOnSentinel(sc.v, TRUE)
    /\ \E sc \in {SparseU64IndexReader_Scan(Redis(NoFault), CreateTimeIndexReader,
                                             SparseIds, TRUE, Some(1))} :
          /\ ~sc.v.more
          /\ sc.v.pages = 1
          /\ ~EndedOnEmptyPage(sc.v)
          /\ ~EndedOnSentinel(sc.v, TRUE)

==========================================================================
